---- MODULE Spec2Model ----
(***************************************************************************)
(* Model of the exam-tracking application: the analytics functions of the *)
(* error-analysis page, the statistics of the exam-paper detail page, the  *)
(* HTTP CRUD routes, batch question creation and the make_api_request      *)
(* facade, all over the table-oriented backend behind SupabaseHandler.     *)
(*                                                                         *)
(* Each area has its own specification over the shared variables:          *)
(*   SpecRate   analytics functions applied to a drawn question list       *)
(*   SpecBatch  the two batch-creation implementations                     *)
(*   SpecCrud   the HTTP CRUD routes of api_routes.py                      *)
(*   SpecApi    make_api_request / api_request of api_service.py           *)
(*   SpecInsert SupabaseHandler.insert_data                                 *)
(*   SpecTrendSelect, SpecTrendCount, SpecTrendSort                         *)
(*              calculate_trend_analysis and the weekly grouping           *)
(*   SpecCos    ExamPaperCOSManager of cos_uploader.py                      *)
(*   SpecDisplay the image display of pages/exam_paper_detail.py            *)
(*   SpecLogin  check_login, the login page and logout of pages/login.py   *)
(*   SpecPapers get_exam_papers_by_student_id of the detail page           *)
(*   SpecDelete upload_image followed by delete_file                       *)
(*   SpecAuth   user creation and authenticate_user                        *)
(*   SpecUpdate the update of an exam paper by route and by service        *)
(***************************************************************************)
EXTENDS Integers, Sequences, FiniteSets, TLC

VARIABLES
    questions,      \* analytics: the in-memory question list handed to the functions
    result,         \* analytics: what the last analytics call returned / rendered
    tables,         \* backend: table name -> sequence of rows
    nextId,         \* backend: next id the backend assigns
    request,        \* the last request handled (its inputs, kept to state the claims)
    dbLog,          \* the backend calls the last request made, in order
    response,       \* the answer to the last request
    cos,            \* object storage: the bucket, and the uuids issued so far
    session         \* st.session_state: the keys present and their values

vars == <<questions, result, tables, nextId, request, dbLog, response, cos, session>>

(***************************************************************************)
(* Bounds of the model.                                                    *)
(***************************************************************************)
MaxQuestions == 3       \* longest question list drawn

StudentIds == {1, 2}
PaperIds == {1, 2}

(***************************************************************************)
(* Python values.  An optional integer that is None is None_; the backend  *)
(* assigns ids from 1.  The is_correct entry of a question dict is one of  *)
(* "true", "false", "none" (the key is there, its value is None) and       *)
(* "absent" (the dict has no such key).                                    *)
(***************************************************************************)
None_ == 0

SeqsUpTo(S, n) == UNION {[1..k -> S] : k \in 0..n}

IsCorrectValues == {"true", "false", "none", "absent"}

\* q.get('is_correct', default)
get_is_correct(q, default) ==
    IF q.is_correct = "absent" THEN default ELSE q.is_correct

\* Python truthiness of True / False / None
Truthy(v) == v = "true"

\* a / b * 100 as the exact quotient num/den; den = 0 is a ZeroDivisionError
Percent(a, b) == [num |-> a * 100, den |-> b]

\* the int literal 0 where a rate is expected
ZeroRate == [num |-> 0, den |-> 1]

\* comparison of two quotients with positive denominators
RateEq(r, s) == r.num * s.den = s.num * r.den
RateLeq(r, s) == r.num * s.den <= s.num * r.den

\* f"{rate:.1f}": the rate in tenths, rounded half to even as Python formats
FormatOneDecimal(r) ==
    LET n == r.num * 10
        q == n \div r.den
        m == n % r.den
    IN  IF 2 * m < r.den THEN q
        ELSE IF 2 * m > r.den THEN q + 1
        ELSE IF q % 2 = 0 THEN q ELSE q + 1

(***************************************************************************)
(* pages/error_analysis.py                                                 *)
(***************************************************************************)
\* calculate_error_rate without its two guards against an empty selection
calculate_error_rate_unguarded(sid, pid, qs) ==
    LET exam_questions ==
            SelectSeq(qs, LAMBDA q: q.exam_paper_id = pid /\ q.student_id = sid)
        error_questions ==
            SelectSeq(exam_questions, LAMBDA q: ~Truthy(get_is_correct(q, "false")))
    IN  [total_questions |-> Len(exam_questions),
         error_questions |-> Len(error_questions),
         error_rate |-> Percent(Len(error_questions), Len(exam_questions)),
         error_list |-> error_questions]

\* calculate_error_rate selecting the errors by exam only
calculate_error_rate_anystudent(sid, pid, qs) ==
    LET exam_questions ==
            SelectSeq(qs, LAMBDA q: q.exam_paper_id = pid /\ q.student_id = sid)
        error_questions ==
            SelectSeq(qs, LAMBDA q: q.exam_paper_id = pid
                                    /\ ~Truthy(get_is_correct(q, "false")))
    IN  IF exam_questions = <<>>
        THEN [total_questions |-> 0, error_questions |-> 0,
              error_rate |-> ZeroRate, error_list |-> <<>>]
        ELSE [total_questions |-> Len(exam_questions),
              error_questions |-> Len(error_questions),
              error_rate |-> Percent(Len(error_questions), Len(exam_questions)),
              error_list |-> error_questions]

calculate_error_rate(sid, pid, qs) ==
    LET exam_questions ==
            SelectSeq(qs, LAMBDA q: q.exam_paper_id = pid /\ q.student_id = sid)
        error_questions ==
            SelectSeq(exam_questions, LAMBDA q: ~Truthy(get_is_correct(q, "false")))
        total_questions == Len(exam_questions)
        error_count == Len(error_questions)
    IN  IF exam_questions = <<>>
        THEN [total_questions |-> 0, error_questions |-> 0,
              error_rate |-> ZeroRate, error_list |-> <<>>]
        ELSE [total_questions |-> total_questions,
              error_questions |-> error_count,
              error_rate |-> IF total_questions > 0
                             THEN Percent(error_count, total_questions)
                             ELSE ZeroRate,
              error_list |-> error_questions]

\* trend_paper_counts with the test "if paper_questions" left out: every selected
\* paper gets an entry
trend_paper_counts_always(pid, qs) ==
    LET paper_questions == SelectSeq(qs, LAMBDA q: q.exam_paper_id = pid)
        total_count == Len(paper_questions)
        error_count ==
            Len(SelectSeq(paper_questions,
                          LAMBDA q: ~Truthy(get_is_correct(q, "false"))))
    IN  [entry |-> TRUE, total_questions |-> total_count,
         error_questions |-> error_count,
         error_rate |-> IF total_count > 0
                        THEN Percent(error_count, total_count)
                        ELSE ZeroRate]

\* calculate_trend_analysis, the counts of one selected paper (None: no entry)
trend_paper_counts(pid, qs) ==
    LET paper_questions == SelectSeq(qs, LAMBDA q: q.exam_paper_id = pid)
        total_count == Len(paper_questions)
        error_count ==
            Len(SelectSeq(paper_questions,
                          LAMBDA q: ~Truthy(get_is_correct(q, "false"))))
    IN  IF paper_questions # <<>>
        THEN [entry |-> TRUE, total_questions |-> total_count,
              error_questions |-> error_count,
              error_rate |-> IF total_count > 0
                             THEN Percent(error_count, total_count)
                             ELSE ZeroRate]
        ELSE [entry |-> FALSE, total_questions |-> 0, error_questions |-> 0,
              error_rate |-> ZeroRate]

(***************************************************************************)
(* pages/exam_paper_detail.py                                              *)
(***************************************************************************)
\* get_exam_papers_by_student_id: APIService (api_service.py:28-400) defines no
\* method of that name, so the attribute lookup raises AttributeError, which the
\* except clause turns into the empty list.
get_exam_papers_by_student_id(sid) == <<>>

\* get_questions_by_exam_paper_id: as above, APIService has no such method.
get_questions_by_exam_paper_id(pid) == <<>>

\* st.session_state.get('selected_student', {}).get('id', 1)
current_student_id == 1

\* the statistics block of show_exam_paper_detail
detail_statistics(paper_questions) ==
    LET total_questions == Len(paper_questions)
        wrong_questions ==
            SelectSeq(paper_questions, LAMBDA q: ~Truthy(get_is_correct(q, "true")))
        wrong_count == Len(wrong_questions)
        error_rate == IF total_questions > 0
                      THEN Percent(wrong_count, total_questions)
                      ELSE ZeroRate
    IN  [rendered |-> "statistics",
         total_questions |-> total_questions,
         wrong_count |-> wrong_count,
         error_rate_text |-> FormatOneDecimal(error_rate)]

\* show_exam_paper_detail(paper_id), up to the statistics it renders
show_exam_paper_detail(pid) ==
    LET current_student_papers == get_exam_papers_by_student_id(current_student_id)
        paper_questions == get_questions_by_exam_paper_id(pid)
        found == {i \in DOMAIN current_student_papers :
                      current_student_papers[i].id = pid}
    IN  IF found = {}
        THEN [rendered |-> "paper_not_found", total_questions |-> 0,
              wrong_count |-> 0, error_rate_text |-> 0]
        ELSE detail_statistics(paper_questions)

(***************************************************************************)
(* The backend behind SupabaseHandler: tables of rows.                     *)
(***************************************************************************)
TableNames == {"user", "student", "exam_paper", "exam_paper_image",
               "knowledge_point", "question", "question_knowledge_point"}

NoTables == [t \in TableNames |-> <<>>]

\* ExamPaperCOSManager(): the bucket name and the region, when the secrets name none
bucket_name == "exam-papers-ladr"
region == "ap-beijing"

\* the manager (self) as constructed with the defaults, and its bucket with no
\* object in it, no upload made, no uuid issued
NoCos == [self |-> [bucket_name |-> bucket_name, region |-> region],
          objects |-> <<>>, puts |-> <<>>, issued |-> {}]

\* st.session_state of a new browser session: no key
NoSession == [k \in {} |-> ""]

BackendIdle ==
    /\ cos = NoCos
    /\ session = NoSession
    /\ tables = NoTables
    /\ nextId = 1
    /\ request = [op |-> "none"]
    /\ dbLog = <<>>
    /\ response = [kind |-> "none"]

AnalyticsIdle ==
    /\ questions = <<>>
    /\ result = [op |-> "none"]

(***************************************************************************)
(* supabase_handler.py.  A handler call runs against the backend state     *)
(* db = [tables, nextId, log] and gives [db, ret]: the state after it and   *)
(* what it returns, ret = [none |-> TRUE] for None and otherwise            *)
(* [none |-> FALSE, data |-> the rows of response.data].  The backend's     *)
(* answer to a call is an input: "ok", or "error" when the client raises.   *)
(***************************************************************************)
Outcomes == {"ok", "error"}

ReturnNone == [none |-> TRUE, data |-> <<>>]
ReturnData(rows) == [none |-> FALSE, data |-> rows]

\* Python truthiness of a handler result: None and [] are falsy
Falsy(ret) == ret.none \/ ret.data = <<>>

WithoutKey(d, k) == [x \in DOMAIN d \ {k} |-> d[x]]

Logged(db, call) == [db EXCEPT !.log = Append(@, call)]

\* insert_data without the removal of the caller's id
insert_data_keeps_id(table_name, data, outcome, db) ==
    LET logged == Logged(db, [op |-> "insert", table |-> table_name,
                              payload |-> data, outcome |-> outcome])
        row == IF "id" \in DOMAIN data THEN data ELSE data @@ ("id" :> db.nextId)
    IN  IF outcome = "ok"
        THEN [db |-> [logged EXCEPT !.tables[table_name] = Append(@, row),
                                    !.nextId = @ + 1],
              ret |-> ReturnData(<<row>>), data |-> data]
        ELSE [db |-> logged, ret |-> ReturnNone, data |-> data]

\* SupabaseHandler.insert_data: the id is deleted from a copy of data, the copy is
\* what the client sends, and the backend gives the new row its own id.  The data
\* entry of the result is the caller's dict as the call leaves it.
insert_data(table_name, data, outcome, db) ==
    LET copy == data
        insert_payload == WithoutKey(copy, "id")
        logged == Logged(db, [op |-> "insert", table |-> table_name,
                              payload |-> insert_payload, outcome |-> outcome])
        row == insert_payload @@ ("id" :> db.nextId)
    IN  IF outcome = "ok"
        THEN [db |-> [logged EXCEPT !.tables[table_name] = Append(@, row),
                                    !.nextId = @ + 1],
              ret |-> ReturnData(<<row>>), data |-> data]
        ELSE [db |-> logged, ret |-> ReturnNone, data |-> data]

\* the rows of a table that satisfy every filter (query.eq per filter entry)
Filtered(rows, filters) ==
    SelectSeq(rows, LAMBDA r: \A c \in DOMAIN filters :
                                  c \in DOMAIN r /\ r[c] = filters[c])

\* SupabaseHandler.select_data; "no_table" is the client raising "Could not find
\* the table", which the handler answers with [] for knowledge_point alone
select_data(table_name, filters, outcome, db) ==
    LET logged == Logged(db, [op |-> "select", table |-> table_name,
                              payload |-> filters, outcome |-> outcome])
    IN  IF outcome = "ok"
        THEN [db |-> logged,
              ret |-> ReturnData(Filtered(db.tables[table_name], filters))]
        ELSE IF outcome = "no_table" /\ table_name = "knowledge_point"
        THEN [db |-> logged, ret |-> ReturnData(<<>>)]
        ELSE [db |-> logged, ret |-> ReturnNone]

\* one row with the entries of data written over it
Updated(row, data) ==
    [k \in DOMAIN row \cup DOMAIN data |-> IF k \in DOMAIN data THEN data[k] ELSE row[k]]

Matches(r, filters) == \A c \in DOMAIN filters : c \in DOMAIN r /\ r[c] = filters[c]

\* SupabaseHandler.update_data
update_data(table_name, data, filters, outcome, db) ==
    LET logged == Logged(db, [op |-> "update", table |-> table_name,
                              payload |-> data, outcome |-> outcome])
        rows == db.tables[table_name]
        after == [i \in DOMAIN rows |->
                      IF Matches(rows[i], filters) THEN Updated(rows[i], data)
                      ELSE rows[i]]
        hit == Filtered(rows, filters)
    IN  IF outcome = "ok"
        THEN [db |-> [logged EXCEPT !.tables[table_name] = after],
              ret |-> ReturnData([i \in DOMAIN hit |-> Updated(hit[i], data)])]
        ELSE [db |-> logged, ret |-> ReturnNone]

\* SupabaseHandler.delete_data
delete_data(table_name, filters, outcome, db) ==
    LET logged == Logged(db, [op |-> "delete", table |-> table_name,
                              payload |-> filters, outcome |-> outcome])
        rows == db.tables[table_name]
    IN  IF outcome = "ok"
        THEN [db |-> [logged EXCEPT !.tables[table_name] =
                          SelectSeq(rows, LAMBDA r: ~Matches(r, filters))],
              ret |-> ReturnData(Filtered(rows, filters))]
        ELSE [db |-> logged, ret |-> ReturnNone]

\* the backend state a request starts from: the tables, and an empty call log
DbNow == [tables |-> tables, nextId |-> nextId, log |-> <<>>]

(***************************************************************************)
(* models.py: what pydantic accepts.  A request body is a dict (a function  *)
(* from keys); a body with a required key missing is rejected.              *)
(***************************************************************************)
\* BatchQuestionItem: content: str and is_correct: bool are required
ValidBatchQuestionItem(item) == {"content", "is_correct"} \subseteq DOMAIN item

\* BatchQuestionCreate: exam_paper_id, student_id and questions are required, and
\* every item must validate
ValidBatchQuestionCreate(body) ==
    /\ {"exam_paper_id", "student_id", "questions"} \subseteq DOMAIN body
    /\ \A i \in DOMAIN body.questions : ValidBatchQuestionItem(body.questions[i])

\* QuestionResponse: id, exam_paper_id, image_id and student_id are required ints
ValidQuestionResponse(row) ==
    /\ {"id", "exam_paper_id", "image_id", "student_id"} \subseteq DOMAIN row
    /\ row.id # None_
    /\ row.exam_paper_id # None_
    /\ row.image_id # None_
    /\ row.student_id # None_

(***************************************************************************)
(* Batch question creation: POST /questions/batch (api_routes.py) and       *)
(* APIService.create_questions_batch (api_service.py).  An error message    *)
(* is the record of its template and of the values formatted into it.       *)
(***************************************************************************)
\* the loop of the route; acc carries created_questions, errors and the counts
RECURSIVE route_batch_loop(_, _, _, _, _)
route_batch_loop(batch_request, i, outcomes, db, acc) ==
    IF i > Len(batch_request.questions) THEN [db |-> db, acc |-> acc]
    ELSE
        LET question_item == batch_request.questions[i]
            question_data == [exam_paper_id |-> batch_request.exam_paper_id,
                              student_id |-> batch_request.student_id,
                              image_id |-> batch_request.image_id,
                              content |-> question_item.content,
                              is_correct |-> question_item.is_correct,
                              remark |-> batch_request.remark]
            r == insert_data("question", question_data, outcomes[i], db)
        IN  IF ~Falsy(r.ret)
            THEN route_batch_loop(batch_request, i + 1, outcomes, r.db,
                     [acc EXCEPT !.created_questions = Append(@, r.ret.data[1]),
                                 !.success_count = @ + 1])
            ELSE route_batch_loop(batch_request, i + 1, outcomes, r.db,
                     [acc EXCEPT !.errors =
                                     Append(@, [template |-> "item {pos}: create failed",
                                                pos |-> i]),
                                 !.failed_count = @ + 1])

\* the route with the loop ending at the first failed insert
RECURSIVE route_batch_loop_aborting(_, _, _, _, _)
route_batch_loop_aborting(batch_request, i, outcomes, db, acc) ==
    IF i > Len(batch_request.questions) THEN [db |-> db, acc |-> acc]
    ELSE
        LET question_item == batch_request.questions[i]
            question_data == [exam_paper_id |-> batch_request.exam_paper_id,
                              student_id |-> batch_request.student_id,
                              image_id |-> batch_request.image_id,
                              content |-> question_item.content,
                              is_correct |-> question_item.is_correct,
                              remark |-> batch_request.remark]
            r == insert_data("question", question_data, outcomes[i], db)
        IN  IF ~Falsy(r.ret)
            THEN route_batch_loop_aborting(batch_request, i + 1, outcomes, r.db,
                     [acc EXCEPT !.created_questions = Append(@, r.ret.data[1]),
                                 !.success_count = @ + 1])
            ELSE [db |-> r.db,
                  acc |-> [acc EXCEPT !.errors =
                                     Append(@, [template |-> "item {pos}: create failed",
                                                pos |-> i]),
                                      !.failed_count = @ + 1]]

\* POST /questions/batch, for a body FastAPI has validated against
\* BatchQuestionCreate.  Building BatchQuestionResponse validates every created row
\* against QuestionResponse; a failure there is caught by the outer except and
\* answered with 500.
create_questions_batch_route(batch_request, outcomes, db) ==
    LET done == route_batch_loop(batch_request, 1, outcomes, db,
                    [created_questions |-> <<>>, errors |-> <<>>,
                     success_count |-> 0, failed_count |-> 0])
        acc == done.acc
    IN  IF \A k \in DOMAIN acc.created_questions :
               ValidQuestionResponse(acc.created_questions[k])
        THEN [db |-> done.db,
              response |-> [kind |-> "batch", status |-> 200,
                            success_count |-> acc.success_count,
                            failed_count |-> acc.failed_count,
                            created_questions |-> acc.created_questions,
                            errors |-> acc.errors]]
        ELSE [db |-> done.db, response |-> [kind |-> "http_error", status |-> 500]]

\* the service recording a failed insert without counting it
RECURSIVE service_batch_loop_uncounted(_, _, _, _, _)
service_batch_loop_uncounted(batch_request, i, outcomes, db, acc) ==
    IF i > Len(batch_request.questions) THEN [db |-> db, acc |-> acc]
    ELSE
        LET question_data == batch_request.questions[i]
            question_dict == [content |-> question_data.content,
                              is_correct |-> question_data.is_correct,
                              image_id |-> batch_request.image_id]
            r == insert_data("question", question_dict, outcomes[i], db)
        IN  IF ~Falsy(r.ret)
            THEN service_batch_loop_uncounted(batch_request, i + 1, outcomes, r.db,
                     [acc EXCEPT !.success_count = @ + 1])
            ELSE service_batch_loop_uncounted(batch_request, i + 1, outcomes, r.db,
                     [acc EXCEPT !.errors =
                                     Append(@, [template |->
                                                    "Failed to create question: {content}",
                                                content |-> question_dict.content])])

\* the service counting a failed insert as a success
RECURSIVE service_batch_loop_miscounting(_, _, _, _, _)
service_batch_loop_miscounting(batch_request, i, outcomes, db, acc) ==
    IF i > Len(batch_request.questions) THEN [db |-> db, acc |-> acc]
    ELSE
        LET question_data == batch_request.questions[i]
            question_dict == [content |-> question_data.content,
                              is_correct |-> question_data.is_correct,
                              image_id |-> batch_request.image_id]
            r == insert_data("question", question_dict, outcomes[i], db)
        IN  service_batch_loop_miscounting(batch_request, i + 1, outcomes, r.db,
                [acc EXCEPT !.success_count = @ + 1])

\* the loop of APIService.create_questions_batch
RECURSIVE service_batch_loop(_, _, _, _, _)
service_batch_loop(batch_request, i, outcomes, db, acc) ==
    IF i > Len(batch_request.questions) THEN [db |-> db, acc |-> acc]
    ELSE
        LET question_data == batch_request.questions[i]
            question_dict == [content |-> question_data.content,
                              is_correct |-> question_data.is_correct,
                              image_id |-> batch_request.image_id]
            r == insert_data("question", question_dict, outcomes[i], db)
        IN  IF ~Falsy(r.ret)
            THEN service_batch_loop(batch_request, i + 1, outcomes, r.db,
                     [acc EXCEPT !.success_count = @ + 1])
            ELSE service_batch_loop(batch_request, i + 1, outcomes, r.db,
                     [acc EXCEPT !.failed_count = @ + 1,
                                 !.errors =
                                     Append(@, [template |->
                                                    "Failed to create question: {content}",
                                                content |-> question_dict.content])])

\* APIService.create_questions_batch
create_questions_batch_service(batch_data, outcomes, db) ==
    IF ~ValidBatchQuestionCreate(batch_data)
    THEN [db |-> db,
          response |-> [kind |-> "batch", status |-> 200,
                        success_count |-> 0,
                        failed_count |-> IF "questions" \in DOMAIN batch_data
                                         THEN Len(batch_data.questions)
                                         ELSE 0,
                        errors |-> <<[template |-> "Batch creation failed: {e}"]>>]]
    ELSE
        LET done == service_batch_loop(batch_data, 1, outcomes, db,
                        [errors |-> <<>>, success_count |-> 0, failed_count |-> 0])
        IN  [db |-> done.db,
             response |-> [kind |-> "batch", status |-> 200,
                           success_count |-> done.acc.success_count,
                           failed_count |-> done.acc.failed_count,
                           errors |-> done.acc.errors]]

(***************************************************************************)
(* SpecBatch: batch requests against the question table.                   *)
(***************************************************************************)
MaxBatch == 2       \* most items in one batch request
MaxRows == 3        \* most rows the question table grows to

BatchItems == {[content |-> "a", is_correct |-> TRUE],
               [content |-> "b", is_correct |-> FALSE],
               [is_correct |-> TRUE]}

BatchBodies ==
    [exam_paper_id : {1}, student_id : {1}, image_id : {None_, 1},
     remark : {"r"}, questions : SeqsUpTo(BatchItems, MaxBatch)]

InitBatch ==
    /\ AnalyticsIdle
    /\ BackendIdle

\* the state after a handler ran: its backend state, its inputs, its answer
Handled(req, out) ==
    /\ tables' = out.db.tables
    /\ nextId' = out.db.nextId
    /\ dbLog' = out.db.log
    /\ request' = req
    /\ response' = out.response

RouteCreateQuestionsBatch ==
    \E body \in BatchBodies :
        \E outcomes \in [DOMAIN body.questions -> Outcomes] :
            /\ ValidBatchQuestionCreate(body)
            /\ Len(tables["question"]) + Len(body.questions) <= MaxRows
            /\ Handled([op |-> "route_batch", body |-> body, outcomes |-> outcomes,
                        before |-> tables["question"]],
                       create_questions_batch_route(body, outcomes, DbNow))
            /\ UNCHANGED <<questions, result, cos, session>>

ServiceCreateQuestionsBatch ==
    \E body \in BatchBodies :
        \E outcomes \in [DOMAIN body.questions -> Outcomes] :
            /\ Len(tables["question"]) + Len(body.questions) <= MaxRows
            /\ Handled([op |-> "service_batch", body |-> body, outcomes |-> outcomes,
                        before |-> tables["question"]],
                       create_questions_batch_service(body, outcomes, DbNow))
            /\ UNCHANGED <<questions, result, cos, session>>

NextBatch == RouteCreateQuestionsBatch \/ ServiceCreateQuestionsBatch

SpecBatch == InitBatch /\ [][NextBatch]_vars

(***************************************************************************)
(* Claims about batch question creation.                                   *)
(***************************************************************************)
IsBatch == request.op \in {"route_batch", "service_batch"}
BatchN == Len(request.body.questions)

\* the rows the last batch added to the question table
NewRows == SubSeq(tables["question"], Len(request.before) + 1, Len(tables["question"]))

\* the positions of the items whose insert the backend accepted / refused
Accepted == {i \in DOMAIN request.outcomes : request.outcomes[i] = "ok"}
Refused == {i \in DOMAIN request.outcomes : request.outcomes[i] = "error"}

\* the items at the positions of S, in their order
RECURSIVE ItemsAt(_, _, _)
ItemsAt(items, S, i) ==
    IF i > Len(items) THEN <<>>
    ELSE (IF i \in S THEN <<items[i]>> ELSE <<>>) \o ItemsAt(items, S, i + 1)

SameQuestion(row, item) ==
    row.content = item.content /\ row.is_correct = item.is_correct

C5_FailureNamesPosition ==
    (IsBatch /\ response.kind = "batch" /\ ValidBatchQuestionCreate(request.body)) =>
        /\ \A i \in Refused :
               \E k \in DOMAIN response.errors :
                   /\ "pos" \in DOMAIN response.errors[k]
                   /\ response.errors[k].pos = i
        /\ Len(dbLog) = BatchN
        /\ \A i \in DOMAIN dbLog :
               /\ dbLog[i].op = "insert"
               /\ SameQuestion(dbLog[i].payload, request.body.questions[i])

\* C6: a batch is N independent inserts with no rollback: afterwards the question
\* table holds the rows it held before followed by one new row per item whose insert
\* succeeded, whether that item came before or after a failed one; a batch result
\* reports their number as success_count, and the route's created_questions lists
\* exactly those rows.
C6_NoRollback ==
    IsBatch =>
        LET kept == IF ValidBatchQuestionCreate(request.body)
                    THEN ItemsAt(request.body.questions, Accepted, 1)
                    ELSE <<>>
        IN  /\ SubSeq(tables["question"], 1, Len(request.before)) = request.before
            /\ Len(NewRows) = Len(kept)
            /\ \A k \in DOMAIN NewRows : SameQuestion(NewRows[k], kept[k])
            /\ response.kind = "batch" => response.success_count = Len(NewRows)
            /\ (response.kind = "batch" /\ request.op = "route_batch") =>
                   response.created_questions = NewRows

C6_Witness ==
    /\ request.op = "route_batch"
    /\ response.kind = "batch"
    /\ BatchN = 2
    /\ request.outcomes = <<"error", "ok">>
    /\ Len(NewRows) = 1
    /\ response.created_questions = NewRows

(***************************************************************************)
(* models.py: the request models of the CRUD surface.                      *)
(***************************************************************************)
Resources == {"users", "students", "exam_papers", "exam_paper_images",
              "knowledge_points", "questions", "question_knowledge_points"}

\* the table each resource's handlers name
TableOf(resource) ==
    CASE resource = "users" -> "user"
      [] resource = "students" -> "student"
      [] resource = "exam_papers" -> "exam_paper"
      [] resource = "exam_paper_images" -> "exam_paper_image"
      [] resource = "knowledge_points" -> "knowledge_point"
      [] resource = "questions" -> "question"
      [] resource = "question_knowledge_points" -> "question_knowledge_point"

\* the fields of UserCreate, StudentCreate, ..., QuestionKnowledgePointCreate
CreateFields(resource) ==
    CASE resource = "users" -> {"username", "password"}
      [] resource = "students" -> {"user_id", "name"}
      [] resource = "exam_papers" -> {"student_id", "title", "description"}
      [] resource = "exam_paper_images" -> {"exam_paper_id", "image_url", "upload_order"}
      [] resource = "knowledge_points" -> {"name"}
      [] resource = "questions" -> {"exam_paper_id", "image_id", "student_id",
                                    "content", "is_correct", "remark"}
      [] resource = "question_knowledge_points" -> {"question_id", "knowledge_point_id"}

\* the fields among them that have no default
RequiredFields(resource) ==
    CASE resource = "users" -> {"username", "password"}
      [] resource = "students" -> {"name"}
      [] resource = "exam_papers" -> {"student_id"}
      [] resource = "exam_paper_images" -> {"exam_paper_id", "image_url"}
      [] resource = "knowledge_points" -> {"name"}
      [] resource = "questions" -> {"exam_paper_id", "image_id", "student_id"}
      [] resource = "question_knowledge_points" -> {"question_id", "knowledge_point_id"}

IntFields == {"id", "user_id", "student_id", "exam_paper_id", "upload_order",
              "image_id", "question_id", "knowledge_point_id"}

\* None in a field of each type
NoneOf(field) == IF field \in IntFields THEN None_ ELSE "None"

\* pydantic accepts a body that has every required field
ValidCreate(resource, body) == RequiredFields(resource) \subseteq DOMAIN body

\* XCreate(**body).dict(): the model's own fields, unset optional ones None; a key
\* the model does not declare (such as id) is ignored
create_dict(resource, body) ==
    [f \in CreateFields(resource) |-> IF f \in DOMAIN body THEN body[f] ELSE NoneOf(f)]

\* hashlib.sha256(password.encode()).hexdigest(), for the texts drawn as passwords:
\* "x", "p", "q", and the digest of "p" given as a password
sha256_hexdigest(password) ==
    CASE password = "x"
            -> "2d711642b726b04401627ca9fbac32f5c8530fb1903cc4db02258717921a4881"
      [] password = "p"
            -> "148de9c5a7a44d19e56cd9ae1a554bf67847afb0c58f6e12fa29ac7ddfca9940"
      [] password = "q"
            -> "8e35c2cd3bf6641bdb0e2050b76932cbb2e6034a0ddacc1d9bea82a6ba57f7cf"
      [] password = "148de9c5a7a44d19e56cd9ae1a554bf67847afb0c58f6e12fa29ac7ddfca9940"
            -> "8f9644de0487338e6b422a44eaafc1844374e471b4b8bc832674cc10fab12917"

(***************************************************************************)
(* api_routes.py: the five handlers of each resource.  An HTTPException      *)
(* raised inside a try whose only clause is "except Exception" is caught by  *)
(* it and raised again with status 500.                                      *)
(***************************************************************************)
Ok(kind, body) == [status |-> 200, kind |-> kind, body |-> body]
HttpError(status, detail) == [status |-> status, kind |-> "error", body |-> detail]

\* raise HTTPException(status, detail) under "except Exception" alone
RaisedUnderExceptException(status, detail) == HttpError(500, <<status, detail>>)

\* raise HTTPException(status, detail) under "except HTTPException: raise"
RaisedUnderExceptHTTPException(status, detail) == HttpError(status, detail)

\* GET /{resource}
route_get_list(resource, outcome, db) ==
    LET r == select_data(TableOf(resource), <<>>, outcome, db)
    IN  [db |-> r.db,
         response |-> Ok("list", IF ~r.ret.none THEN r.ret.data ELSE <<>>)]

\* GET /{resource}/{id}
route_get_one(resource, id, outcome, db) ==
    LET r == select_data(TableOf(resource), [id |-> id], outcome, db)
    IN  IF Falsy(r.ret)
        THEN [db |-> r.db, response |-> RaisedUnderExceptException(404, "not found")]
        ELSE [db |-> r.db, response |-> Ok("row", r.ret.data[1])]

\* POST /{resource}; outcomes.select answers the duplicate-id lookup,
\* outcomes.write the insert
route_create(resource, body, outcomes, db) ==
    LET dumped == create_dict(resource, body)
        data == IF resource = "users" /\ "password" \in DOMAIN dumped
                THEN WithoutKey(dumped, "password")
                         @@ ("password_hash" :> sha256_hexdigest(dumped.password))
                ELSE dumped
        lookup == "id" \in DOMAIN data /\ data["id"] # None_
        existing == select_data(TableOf(resource), [id |-> data["id"]],
                                outcomes.select, db)
        db1 == IF lookup THEN existing.db ELSE db
        r == insert_data(TableOf(resource), data, outcomes.write, db1)
    IN  IF lookup /\ ~Falsy(existing.ret)
        THEN [db |-> existing.db,
              response |-> RaisedUnderExceptHTTPException(400, "id exists")]
        ELSE IF Falsy(r.ret)
        THEN [db |-> r.db,
              response |-> RaisedUnderExceptHTTPException(500, "create failed")]
        ELSE [db |-> r.db, response |-> Ok("row", r.ret.data[1])]

\* PUT /{resource}/{id}
route_update(resource, id, body, outcome, db) ==
    LET r == update_data(TableOf(resource), create_dict(resource, body),
                         [id |-> id], outcome, db)
    IN  IF Falsy(r.ret)
        THEN [db |-> r.db, response |-> RaisedUnderExceptException(404, "not found")]
        ELSE [db |-> r.db, response |-> Ok("row", r.ret.data[1])]

\* DELETE /{resource}/{id}
route_delete(resource, id, outcome, db) ==
    LET r == delete_data(TableOf(resource), [id |-> id], outcome, db)
    IN  [db |-> r.db, response |-> Ok("message", "deleted")]

(***************************************************************************)
(* SpecCrud: requests on the HTTP CRUD surface.                            *)
(***************************************************************************)
MaxCrudId == 2      \* ids the backend assigns, and ids requests name

CrudIds == 1..MaxCrudId

SampleValue(field) == IF field \in IntFields THEN 1 ELSE "x"

\* the bodies drawn for a resource: its required fields, with or without an id
CrudBodies(resource) ==
    LET plain == [f \in RequiredFields(resource) |-> SampleValue(f)]
    IN  {plain} \cup {plain @@ ("id" :> k) : k \in CrudIds}

\* the answers to a select: "no_table" differs from "error" for knowledge_point
\* alone, and is an answer only while that table holds nothing
SelectAnswers(resource) ==
    IF resource = "knowledge_points" /\ tables["knowledge_point"] = <<>>
    THEN Outcomes \cup {"no_table"}
    ELSE Outcomes

\* the answers to the duplicate-id lookup of a create: it is made only when the
\* dumped body carries an id
LookupAnswers(resource, body) ==
    IF "id" \in DOMAIN create_dict(resource, body)
    THEN SelectAnswers(resource)
    ELSE {"ok"}

InitCrud ==
    /\ AnalyticsIdle
    /\ BackendIdle

RouteGetList ==
    \E resource \in Resources :
        \E outcome \in SelectAnswers(resource) :
            /\ Handled([op |-> "GET", resource |-> resource, id |-> None_,
                        body |-> <<>>, before |-> tables],
                       route_get_list(resource, outcome, DbNow))
            /\ UNCHANGED <<questions, result, cos, session>>

RouteGetOne ==
    \E resource \in Resources, id \in CrudIds :
        \E outcome \in SelectAnswers(resource) :
            /\ Handled([op |-> "GET", resource |-> resource, id |-> id,
                        body |-> <<>>, before |-> tables],
                       route_get_one(resource, id, outcome, DbNow))
            /\ UNCHANGED <<questions, result, cos, session>>

RouteCreate ==
    \E resource \in Resources :
        \E body \in CrudBodies(resource) :
            \E outcomes \in [select : LookupAnswers(resource, body), write : Outcomes] :
                /\ nextId <= MaxCrudId
                /\ ValidCreate(resource, body)
                /\ Handled([op |-> "POST", resource |-> resource, id |-> None_,
                            body |-> body, before |-> tables],
                           route_create(resource, body, outcomes, DbNow))
                /\ UNCHANGED <<questions, result, cos, session>>

RouteUpdate ==
    \E resource \in Resources, id \in CrudIds :
        \E body \in {b \in CrudBodies(resource) : "id" \notin DOMAIN b},
           outcome \in Outcomes :
            /\ ValidCreate(resource, body)
            /\ Handled([op |-> "PUT", resource |-> resource, id |-> id,
                        body |-> body, before |-> tables],
                       route_update(resource, id, body, outcome, DbNow))
            /\ UNCHANGED <<questions, result, cos, session>>

RouteDelete ==
    \E resource \in Resources, id \in CrudIds :
        \E outcome \in Outcomes :
            /\ Handled([op |-> "DELETE", resource |-> resource, id |-> id,
                        body |-> <<>>, before |-> tables],
                       route_delete(resource, id, outcome, DbNow))
            /\ UNCHANGED <<questions, result, cos, session>>

NextCrud == RouteGetList \/ RouteGetOne \/ RouteCreate \/ RouteUpdate \/ RouteDelete

SpecCrud == InitCrud /\ [][NextCrud]_vars

(***************************************************************************)
(* Claims about the HTTP CRUD surface.                                     *)
(***************************************************************************)
IsCrud == request.op \in {"GET", "POST", "PUT", "DELETE"}

\* the table the last request addressed, as it was before the request
TableBefore == request.before[TableOf(request.resource)]

HadRow(id) == \E i \in DOMAIN TableBefore : TableBefore[i].id = id

AllCallsOk == \A i \in DOMAIN dbLog : dbLog[i].outcome = "ok"
SomeCallFailed == \E i \in DOMAIN dbLog : dbLog[i].outcome = "error"

\* C7: GET /{resource}/{id} and PUT /{resource}/{id} for an id that has no row
\* respond with status 404, for every resource.
C7_MissingRowIs404 ==
    (/\ request.op \in {"GET", "PUT"}
     /\ request.id # None_
     /\ ~HadRow(request.id)
     /\ AllCallsOk)
        => response.status = 404

\* C8: a POST /{resource} whose body supplies an id that already exists in the
\* table responds with status 400 and inserts no row.
C8_DuplicateIdIs400 ==
    (/\ request.op = "POST"
     /\ "id" \in DOMAIN request.body
     /\ HadRow(request.body["id"])
     /\ AllCallsOk)
        => /\ response.status = 400
           /\ tables = request.before

\* C9: for every endpoint an unexpected failure of the backend call yields status
\* 500 with a message; no endpoint answers a failed backend call with a success
\* body.
C9_BackendFailureIs500 ==
    (IsCrud /\ SomeCallFailed) => response.status = 500 /\ response.kind = "error"

(***************************************************************************)
(* api_service.py: APIService, one method of each kind per resource.  A     *)
(* payload is [is_none |-> TRUE] for None and otherwise                      *)
(* [is_none |-> FALSE, dict |-> the dict].  A method gives [db, ret] with    *)
(* ret = [none |-> TRUE] for None and [none |-> FALSE, value |-> v] for v.   *)
(***************************************************************************)
DataNone == [is_none |-> TRUE, dict |-> <<>>]
DataDict(d) == [is_none |-> FALSE, dict |-> d]

ValueNone == [none |-> TRUE, value |-> <<>>]
Value(v) == [none |-> FALSE, value |-> v]

\* result[0] if result else None
FirstOrNone(ret) == IF Falsy(ret) THEN ValueNone ELSE Value(ret.data[1])

\* APIService.get_users, get_students, ...
service_get_list(resource, outcome, db) ==
    LET r == select_data(TableOf(resource), <<>>, outcome, db)
    IN  [db |-> r.db, ret |-> Value(IF ~r.ret.none THEN r.ret.data ELSE <<>>)]

\* APIService.get_user, get_student, ...
service_get_one(resource, id, outcome, db) ==
    LET r == select_data(TableOf(resource), [id |-> id], outcome, db)
    IN  [db |-> r.db, ret |-> FirstOrNone(r.ret)]

\* APIService.create_user, create_student, ...: XCreate(**data) raises for None and
\* for a dict that lacks a required field, and the method then returns None
service_create(resource, data, outcome, db) ==
    IF data.is_none \/ ~ValidCreate(resource, data.dict)
    THEN [db |-> db, ret |-> ValueNone]
    ELSE LET r == insert_data(TableOf(resource), create_dict(resource, data.dict),
                              outcome, db)
         IN  [db |-> r.db, ret |-> FirstOrNone(r.ret)]

\* XUpdate(**data).model_dump(exclude_unset=True): the fields the caller set
update_dict(resource, d) == [f \in DOMAIN d \cap CreateFields(resource) |-> d[f]]

\* APIService.update_user, update_student, ...
service_update(resource, id, data, outcome, db) ==
    IF data.is_none
    THEN [db |-> db, ret |-> ValueNone]
    ELSE LET r == update_data(TableOf(resource), update_dict(resource, data.dict),
                              [id |-> id], outcome, db)
         IN  [db |-> r.db, ret |-> FirstOrNone(r.ret)]

\* APIService.delete_user, delete_student, ...: result is not None
service_delete(resource, id, outcome, db) ==
    LET r == delete_data(TableOf(resource), [id |-> id], outcome, db)
    IN  [db |-> r.db, ret |-> ~r.ret.none]

(***************************************************************************)
(* api_service.py: make_api_request.  An endpoint is a string, modelled as  *)
(* a sequence of tokens: "/" and pieces of text that hold no "/".           *)
(***************************************************************************)
Digits == {"1"}

\* endpoint.split('/'): the runs of tokens between the "/", one more than the "/"
RECURSIVE Split(_)
Split(endpoint) ==
    IF endpoint = <<>> THEN << <<>> >>
    ELSE LET rest == Split(Tail(endpoint))
         IN  IF Head(endpoint) = "/"
             THEN << <<>> >> \o rest
             ELSE << <<Head(endpoint)>> \o rest[1] >> \o Tail(rest)

RECURSIVE DecimalValue(_)
DecimalValue(part) ==
    IF part = <<>> THEN 0
    ELSE 10 * DecimalValue(SubSeq(part, 1, Len(part) - 1))
             + (IF part[Len(part)] = "1" THEN 1 ELSE 0)

\* int(part): ValueError unless the text is a run of digits
ParseInt(part) ==
    IF part # <<>> /\ \A i \in DOMAIN part : part[i] \in Digits
    THEN [ok |-> TRUE, value |-> DecimalValue(part)]
    ELSE [ok |-> FALSE, value |-> 0]

Success(data) == [success |-> TRUE, data |-> data]
Failure(error) == [success |-> FALSE, error |-> error]
Raised(exception) == [raised |-> exception]

IsResource(part) == Len(part) = 1 /\ part[1] \in Resources

\* the body of the try block of make_api_request: an envelope, or the exception
\* that leaves the block
make_api_request_try(method, endpoint, data, outcomes, db) ==
    LET parts == Split(endpoint)
        resource == parts[1]
        known == IsResource(resource)
        parsed == ParseInt(parts[2])
        resource_id == parsed.value
        unsupported ==
            [db |-> db,
             response |-> Failure(<<"Unsupported method or endpoint", method, endpoint>>)]
        unknown == [db |-> db, response |-> Failure(<<"Unknown resource", resource>>)]
        value_error == [db |-> db, response |-> Raised("ValueError")]
    IN  IF method = "GET" /\ Len(parts) = 1
        THEN IF ~known THEN unknown
             ELSE LET r == service_get_list(resource[1], outcomes[1], db)
                  IN  [db |-> r.db, response |-> Success(r.ret.value)]
        ELSE IF method = "GET" /\ Len(parts) = 2
        THEN IF ~parsed.ok THEN value_error
             ELSE IF ~known THEN unknown
             ELSE LET r == service_get_one(resource[1], resource_id, outcomes[1], db)
                  IN  [db |-> r.db,
                       response |-> IF ~r.ret.none THEN Success(r.ret.value)
                                    ELSE Failure("Resource not found")]
        ELSE IF method = "POST" /\ Len(parts) = 1
        THEN IF ~known THEN unknown
             ELSE LET r == service_create(resource[1], data, outcomes[1], db)
                  IN  [db |-> r.db,
                       response |-> IF ~r.ret.none THEN Success(r.ret.value)
                                    ELSE Failure("Failed to create resource")]
        ELSE IF method = "POST" /\ Len(parts) = 2 /\ parts[2] = <<"batch">>
                /\ resource = <<"questions">>
        THEN IF data.is_none
             THEN [db |-> db, response |-> Raised("AttributeError")]
             ELSE LET r == create_questions_batch_service(data.dict, outcomes, db)
                  IN  [db |-> r.db,
                       response |-> Success(WithoutKey(WithoutKey(r.response, "kind"),
                                                       "status"))]
        ELSE IF method = "PUT" /\ Len(parts) = 2
        THEN IF ~parsed.ok THEN value_error
             ELSE IF ~known THEN unknown
             ELSE LET r == service_update(resource[1], resource_id, data, outcomes[1], db)
                  IN  [db |-> r.db,
                       response |-> IF ~r.ret.none THEN Success(r.ret.value)
                                    ELSE Failure("Failed to update resource")]
        ELSE IF method = "DELETE" /\ Len(parts) = 2
        THEN IF ~parsed.ok THEN value_error
             ELSE IF ~known THEN unknown
             ELSE LET r == service_delete(resource[1], resource_id, outcomes[1], db)
                  IN  [db |-> r.db,
                       response |-> IF r.ret
                                    THEN Success("Resource deleted successfully")
                                    ELSE Failure("Failed to delete resource")]
        ELSE unsupported

\* make_api_request with no except clause around its body
make_api_request_unprotected(method, endpoint, data, outcomes, db) ==
    make_api_request_try(method, endpoint, data, outcomes, db)

\* make_api_request: "except Exception" turns whatever leaves the try block into a
\* failure envelope
make_api_request(method, endpoint, data, outcomes, db) ==
    LET r == make_api_request_try(method, endpoint, data, outcomes, db)
    IN  IF "raised" \in DOMAIN r.response
        THEN [db |-> r.db,
              response |-> Failure(<<"API request failed", r.response.raised>>)]
        ELSE r

(***************************************************************************)
(* SpecApi: make_api_request applied to a drawn method, endpoint and        *)
(* payload, against empty tables or tables that each hold one row.  Only    *)
(* POST and PUT read the payload.                                            *)
(***************************************************************************)
MaxEndpointLen == 3     \* most tokens in an endpoint

Methods == {"GET", "POST", "PUT", "DELETE", "PATCH"}

EndpointTokens == Resources \cup {"batch", "x", "/"} \cup Digits

Payloads ==
    {DataNone,
     DataDict([name |-> "x"]),
     DataDict([exam_paper_id |-> 1, student_id |-> 1, image_id |-> 1, remark |-> "r",
               questions |-> <<[content |-> "a", is_correct |-> TRUE]>>])}

\* every table holding the row a create of the sample body left in it
SeededTables ==
    [t \in TableNames |->
        LET resource == CHOOSE r \in Resources : TableOf(r) = t
        IN  << create_dict(resource, [f \in RequiredFields(resource) |-> SampleValue(f)])
                   @@ ("id" :> 1) >>]

InitApi ==
    /\ AnalyticsIdle
    /\ cos = NoCos
    /\ session = NoSession
    /\ \/ tables = NoTables /\ nextId = 1
       \/ tables = SeededTables /\ nextId = 2
    /\ request \in [op : {"make_api_request"}, method : Methods,
                    endpoint : SeqsUpTo(EndpointTokens, MaxEndpointLen),
                    data : Payloads]
    /\ request.method \notin {"POST", "PUT"} => request.data = DataNone
    /\ dbLog = <<>>
    /\ response = [kind |-> "none"]

MaxApiId == 2       \* ids the backend assigns before requests stop

MakeApiRequest ==
    \E outcomes \in [1..1 -> Outcomes] :
        LET out == make_api_request(request.method, request.endpoint, request.data,
                                    outcomes, DbNow)
        IN  /\ nextId <= MaxApiId
            /\ tables' = out.db.tables
            /\ nextId' = out.db.nextId
            /\ dbLog' = out.db.log
            /\ response' = [kind |-> "envelope", envelope |-> out.response]
            /\ UNCHANGED <<questions, result, request, cos, session>>

NextApi == MakeApiRequest

SpecApi == InitApi /\ [][NextApi]_vars

(***************************************************************************)
(* Claims about make_api_request, stated over SpecApi.                      *)
(***************************************************************************)
IsEnvelope == response.kind = "envelope"

ApiParts == Split(request.endpoint)

UnknownResource == ~IsResource(ApiParts[1])

NonNumericId ==
    /\ request.method \in {"GET", "PUT", "DELETE"}
    /\ Len(ApiParts) = 2
    /\ ~ParseInt(ApiParts[2]).ok

UnsupportedShape ==
    ~ \/ request.method = "GET" /\ Len(ApiParts) \in {1, 2}
      \/ request.method = "POST" /\ Len(ApiParts) = 1
      \/ request.method = "POST" /\ ApiParts = << <<"questions">>, <<"batch">> >>
      \/ request.method \in {"PUT", "DELETE"} /\ Len(ApiParts) = 2

\* C10: for every method, endpoint and payload make_api_request raises nothing and
\* returns an envelope that holds 'success'; a true success comes with 'data' and no
\* 'error', a false one with 'error' and no 'data'; an unknown resource, a
\* non-numeric id and an unsupported method or endpoint shape give success false.
C10_AlwaysAnEnvelope ==
    IsEnvelope =>
        LET env == response.envelope
        IN  /\ "raised" \notin DOMAIN env
            /\ "success" \in DOMAIN env
            /\ env.success \in BOOLEAN
            /\ env.success => "data" \in DOMAIN env /\ "error" \notin DOMAIN env
            /\ ~env.success => "error" \in DOMAIN env /\ "data" \notin DOMAIN env
            /\ (UnknownResource \/ NonNumericId \/ UnsupportedShape) => ~env.success

\* a GET of users/x has been answered: int('x') raised inside the try block
C10_Witness ==
    /\ IsEnvelope
    /\ request.method = "GET"
    /\ request.endpoint = <<"users", "/", "x">>
    /\ NonNumericId
    /\ "success" \in DOMAIN response.envelope
    /\ ~response.envelope.success
    /\ response.envelope.error = <<"API request failed", "ValueError">>

(***************************************************************************)
(* SpecRate: the analytics functions applied to a drawn question list.     *)
(***************************************************************************)
QuestionDicts ==
    [exam_paper_id : PaperIds, student_id : StudentIds, is_correct : IsCorrectValues]

InitRate ==
    /\ questions \in SeqsUpTo(QuestionDicts, MaxQuestions)
    /\ result = [op |-> "none"]
    /\ BackendIdle

CalculateErrorRate ==
    \E sid \in StudentIds, pid \in PaperIds :
        /\ result' = [op |-> "calculate_error_rate", student_id |-> sid,
                      exam_paper_id |-> pid,
                      ret |-> calculate_error_rate(sid, pid, questions)]
        /\ UNCHANGED <<questions, tables, nextId, request, dbLog, response, cos, session>>

ShowExamPaperDetail ==
    \E pid \in PaperIds :
        /\ result' = [op |-> "show_exam_paper_detail", student_id |-> current_student_id,
                      exam_paper_id |-> pid,
                      ret |-> show_exam_paper_detail(pid)]
        /\ UNCHANGED <<questions, tables, nextId, request, dbLog, response, cos, session>>

NextRate == CalculateErrorRate \/ ShowExamPaperDetail

SpecRate == InitRate /\ [][NextRate]_vars

(***************************************************************************)
(* Claims about the error-rate computation.                                *)
(***************************************************************************)
\* the positions of the questions of one student on one exam, and the wrong ones
Matching(sid, pid) ==
    {i \in DOMAIN questions : questions[i].exam_paper_id = pid
                              /\ questions[i].student_id = sid}
NotCorrect(q) == q.is_correct \in {"false", "none", "absent"}
WrongOf(S) == {i \in S : NotCorrect(questions[i])}
Occurrences(seq, x) == Cardinality({i \in DOMAIN seq : seq[i] = x})

\* C1: for every question list, student id and exam id, calculate_error_rate
\* returns an error_rate between 0 and 100 inclusive, computed without a division
\* fault, and the rate is 0 whenever no question matches.
C1_ErrorRateInRange ==
    result.op = "calculate_error_rate" =>
        LET r == result.ret.error_rate
        IN  /\ r.den > 0
            /\ 0 <= r.num
            /\ r.num <= 100 * r.den
            /\ (Matching(result.student_id, result.exam_paper_id) = {} => r.num = 0)

C1_Witness ==
    /\ result.op = "calculate_error_rate"
    /\ questions # <<>>
    /\ Matching(result.student_id, result.exam_paper_id) = {}
    /\ result.ret.error_rate.num = 0

\* C2: calculate_error_rate counts exactly the questions whose exam_paper_id and
\* student_id both match: total_questions is the size of that subset, error_list holds
\* exactly its members that are not correct, error_questions is the length of
\* error_list, error_rate is error_questions / total_questions * 100; one correct and
\* two wrong questions of one exam give total 3, errors 2 and 66.7 to one decimal.
C2_Example ==
    /\ Len(questions) = 3
    /\ \A i \in 1..3 : questions[i].exam_paper_id = 1 /\ questions[i].student_id = 1
    /\ questions[1].is_correct = "true"
    /\ questions[2].is_correct = "false"
    /\ questions[3].is_correct = "false"

C2_CountsExactlyTheSubset ==
    result.op = "calculate_error_rate" =>
        LET ret == result.ret
            M == Matching(result.student_id, result.exam_paper_id)
            W == WrongOf(M)
        IN  /\ ret.total_questions = Cardinality(M)
            /\ ret.error_questions = Len(ret.error_list)
            /\ \A x \in QuestionDicts :
                   Occurrences(ret.error_list, x)
                       = Cardinality({i \in W : questions[i] = x})
            /\ IF M = {} THEN ret.error_rate.num = 0
               ELSE RateEq(ret.error_rate, Percent(Cardinality(W), Cardinality(M)))
            /\ (C2_Example /\ result.student_id = 1 /\ result.exam_paper_id = 1
                    => /\ ret.total_questions = 3
                       /\ ret.error_questions = 2
                       /\ FormatOneDecimal(ret.error_rate) = 667)

C2_Witness ==
    /\ result.op = "calculate_error_rate"
    /\ C2_Example
    /\ result.student_id = 1
    /\ result.exam_paper_id = 1
    /\ result.ret.error_questions = 2

\* C3: in every place that counts wrong answers (calculate_error_rate,
\* calculate_trend_analysis, the statistics of the exam-paper detail page) a question
\* whose is_correct is absent, null or false is counted as an error.
C3_MissingIsCorrectCountsAsError ==
    /\ result.op = "calculate_error_rate" =>
           result.ret.error_questions
               = Cardinality(WrongOf(Matching(result.student_id, result.exam_paper_id)))
    /\ \A pid \in PaperIds :
           trend_paper_counts(pid, questions).error_questions
               = Cardinality(WrongOf({i \in DOMAIN questions :
                                          questions[i].exam_paper_id = pid}))
    /\ \A pid \in PaperIds :
           LET P == {i \in DOMAIN questions : questions[i].exam_paper_id = pid}
               paper_questions == SelectSeq(questions, LAMBDA q: q.exam_paper_id = pid)
           IN  detail_statistics(paper_questions).wrong_count = Cardinality(WrongOf(P))

(***************************************************************************)
(* SpecInsert: SupabaseHandler.insert_data called with any dict a caller    *)
(* can hand it, with or without an id of its own.                           *)
(***************************************************************************)
MaxInsertId == 2        \* ids the backend assigns, and ids callers supply

\* the dicts handed to insert_data for a table: what the routes and the service
\* dump from a create model, and the same with an id entry added
InsertDicts(table_name) ==
    LET resource == CHOOSE r \in Resources : TableOf(r) = table_name
        plain == create_dict(resource, [f \in RequiredFields(resource) |-> SampleValue(f)])
    IN  {plain} \cup {plain @@ ("id" :> k) : k \in 1..MaxInsertId}

InitInsert ==
    /\ AnalyticsIdle
    /\ BackendIdle

InsertData ==
    \E table_name \in TableNames, outcome \in Outcomes :
        \E data \in InsertDicts(table_name) :
            LET out == insert_data(table_name, data, outcome, DbNow)
            IN  /\ nextId <= MaxInsertId
                /\ tables' = out.db.tables
                /\ nextId' = out.db.nextId
                /\ dbLog' = out.db.log
                /\ request' = [op |-> "insert_data", table |-> table_name,
                               data |-> data, outcome |-> outcome,
                               before |-> tables, next_id |-> nextId]
                /\ response' = [kind |-> "insert", ret |-> out.ret, data |-> out.data]
                /\ UNCHANGED <<questions, result, cos, session>>

NextInsert == InsertData

SpecInsert == InitInsert /\ [][NextInsert]_vars

(***************************************************************************)
(* Claims about insert_data.                                               *)
(***************************************************************************)
\* C11: insert_data never sends an 'id' entry to the backend whatever the caller
\* supplied, the id of the new row is the one the backend assigns, and the caller's
\* own dict is the same after the call as before it.
C11_IdStrippedBeforeInsert ==
    request.op = "insert_data" =>
        /\ Len(dbLog) = 1
        /\ dbLog[1].op = "insert"
        /\ "id" \notin DOMAIN dbLog[1].payload
        /\ dbLog[1].payload = WithoutKey(request.data, "id")
        /\ response.data = request.data
        /\ request.outcome = "ok" =>
               LET rows == tables[request.table]
               IN  /\ Len(rows) = Len(request.before[request.table]) + 1
                   /\ rows[Len(rows)].id = request.next_id
                   /\ response.ret.data = <<rows[Len(rows)]>>

\* an insert of a dict that carries id 2 was accepted while the backend's next id was 1
C11_Witness ==
    /\ request.op = "insert_data"
    /\ request.outcome = "ok"
    /\ "id" \in DOMAIN request.data
    /\ request.data["id"] = 2
    /\ request.next_id = 1
    /\ tables[request.table][1].id = 1
    /\ response.data = request.data

(***************************************************************************)
(* pages/error_analysis.py: calculate_trend_analysis.  Dates are days of    *)
(* January 2024 (1 is 2024-01-01, a Monday) and instants are counted in     *)
(* half seconds from 2024-01-00T00:00:00Z.  A created_time is kept as the   *)
(* text it is: an ISO timestamp is its date, its second of the day, its     *)
(* fraction ("" or ".500000") and its zone ("Z", "+00:00", "+08:00", or ""  *)
(* for a text that ends without an offset).  form tells the other values    *)
(* apart: "text" is a string that is no ISO timestamp, "none" is None or a  *)
(* missing key, "int" is a number.                                          *)
(***************************************************************************)
LastSecond == 86399     \* 23:59:59 as a second of the day

Fractions == {"", ".500000"}
Zones == {"Z", "+00:00", "+08:00", ""}

IsoTime(date, time, frac, zone) ==
    [form |-> "iso", date |-> date, time |-> time, frac |-> frac, zone |-> zone]
NotIsoText == [form |-> "text", date |-> 0, time |-> 0, frac |-> "", zone |-> ""]
NoneTime == [form |-> "none", date |-> 0, time |-> 0, frac |-> "", zone |-> ""]
IntTime == [form |-> "int", date |-> 0, time |-> 0, frac |-> "", zone |-> ""]

\* the half seconds of a fraction, and the hours of an offset
HalfSeconds(frac) == IF frac = ".500000" THEN 1 ELSE 0
OffsetHours(zone) == IF zone = "+08:00" THEN 8 ELSE 0

\* the instant of an aware datetime: wall time less its offset
Instant(date, time, half, hours) ==
    2 * (date * 86400 + time - hours * 3600) + half

\* datetime.fromisoformat(created_time.replace('Z', '+00:00')): AttributeError for a
\* value that has no replace method, ValueError for a text that is no ISO timestamp,
\* otherwise a datetime that is aware when the text carries an offset
fromisoformat(created_time) ==
    IF created_time.form = "int" THEN [raised |-> "AttributeError"]
    ELSE IF created_time.form # "iso" THEN [raised |-> "ValueError"]
    ELSE [raised |-> "no",
          aware |-> created_time.zone # "",
          instant |-> Instant(created_time.date, created_time.time,
                              HalfSeconds(created_time.frac),
                              OffsetHours(created_time.zone))]

\* datetime.fromisoformat(start_date + 'T00:00:00+00:00') and
\* datetime.fromisoformat(end_date + 'T23:59:59+00:00')
start_dt(start_date) == Instant(start_date, 0, 0, 0)
end_dt(end_date) == Instant(end_date, LastSecond, 0, 0)

\* Python truthiness of a created_time: None and a missing key are falsy
HasCreatedTime(paper) == paper.created_time.form # "none"

\* the body of the first loop for one paper: "keep", "skip", or the exception that
\* leaves calculate_trend_analysis.  Comparing an aware datetime with a naive one
\* raises TypeError, which the except clause takes with ValueError.
paper_in_range(paper, student_id, start_date, end_date) ==
    IF ~(paper.student_id = student_id /\ HasCreatedTime(paper)) THEN "skip"
    ELSE LET paper_date == fromisoformat(paper.created_time)
         IN  IF paper_date.raised = "AttributeError" THEN "AttributeError"
             ELSE IF paper_date.raised = "ValueError" THEN "skip"
             ELSE IF ~paper_date.aware THEN "skip"
             ELSE IF /\ start_dt(start_date) <= paper_date.instant
                     /\ paper_date.instant <= end_dt(end_date)
             THEN "keep"
             ELSE "skip"

\* the comparison of two created_time texts as Python compares str: by code point.
\* The texts agree up to the day, and day and time are fixed-width digits, so they
\* order as their numbers; the rest is compared code point by code point.
CodePoints(piece) ==
    CASE piece = "" -> <<>>
      [] piece = ".500000" -> <<46, 53, 48, 48, 48, 48, 48>>
      [] piece = "Z" -> <<90>>
      [] piece = "+00:00" -> <<43, 48, 48, 58, 48, 48>>
      [] piece = "+08:00" -> <<43, 48, 56, 58, 48, 48>>

RECURSIVE SeqLess(_, _)
SeqLess(a, b) ==
    IF b = <<>> THEN FALSE
    ELSE IF a = <<>> THEN TRUE
    ELSE IF Head(a) # Head(b) THEN Head(a) < Head(b)
    ELSE SeqLess(Tail(a), Tail(b))

TextLess(s, t) ==
    IF s.date # t.date THEN s.date < t.date
    ELSE IF s.time # t.time THEN s.time < t.time
    ELSE SeqLess(CodePoints(s.frac) \o CodePoints(s.zone),
                 CodePoints(t.frac) \o CodePoints(t.zone))

\* the first loop with the student test left out
filtered_papers_anystudent(exam_papers, student_id, start_date, end_date) ==
    SelectSeq(exam_papers,
              LAMBDA p: paper_in_range(p, p.student_id, start_date, end_date) = "keep")

\* the first loop of calculate_trend_analysis, when no paper raises
filtered_papers(exam_papers, student_id, start_date, end_date) ==
    SelectSeq(exam_papers,
              LAMBDA p: paper_in_range(p, student_id, start_date, end_date) = "keep")

\* 100 - error_rate
correct_rate(rate) == [num |-> 100 * rate.den - rate.num, den |-> rate.den]

\* the entry appended to trend_data for a paper that has questions
trend_entry(paper, qs) ==
    LET counts == trend_paper_counts(paper.id, qs)
    IN  [paper_id |-> paper.id,
         created_time |-> paper.created_time,
         total_questions |-> counts.total_questions,
         error_questions |-> counts.error_questions,
         error_rate |-> counts.error_rate,
         correct_rate |-> correct_rate(counts.error_rate)]

\* list.sort(key=lambda x: x['created_time']): a stable sort on the text of the key
RECURSIVE InsertByCreatedTime(_, _)
InsertByCreatedTime(sorted, x) ==
    IF sorted = <<>> THEN <<x>>
    ELSE IF TextLess(x.created_time, Head(sorted).created_time)
    THEN <<x>> \o sorted
    ELSE <<Head(sorted)>> \o InsertByCreatedTime(Tail(sorted), x)

RECURSIVE SortByCreatedTime(_)
SortByCreatedTime(entries) ==
    IF entries = <<>> THEN <<>>
    ELSE InsertByCreatedTime(SortByCreatedTime(SubSeq(entries, 1, Len(entries) - 1)),
                             entries[Len(entries)])

\* sum(item[field] for item in trend_data)
RECURSIVE SumOf(_, _)
SumOf(entries, field) ==
    IF entries = <<>> THEN 0
    ELSE Head(entries)[field] + SumOf(Tail(entries), field)

\* sum(item['error_rate'] for item in trend_data), an exact quotient
RECURSIVE SumOfRates(_)
SumOfRates(entries) ==
    IF entries = <<>> THEN ZeroRate
    ELSE LET r == Head(entries).error_rate
             s == SumOfRates(Tail(entries))
         IN  [num |-> r.num * s.den + s.num * r.den, den |-> r.den * s.den]

\* the mean of the rates taken over the questions instead of over the papers
average_error_rate_weighted(trend_data) ==
    IF trend_data # <<>>
    THEN Percent(SumOf(trend_data, "error_questions"), SumOf(trend_data, "total_questions"))
    ELSE ZeroRate

\* sum(error_rate) / len(trend_data) if trend_data else 0
average_error_rate(trend_data) ==
    IF trend_data # <<>>
    THEN LET s == SumOfRates(trend_data)
         IN  [num |-> s.num, den |-> s.den * Len(trend_data)]
    ELSE ZeroRate

\* calculate_trend_analysis(student_id, start_date, end_date, exam_papers, questions)
calculate_trend_analysis(student_id, start_date, end_date, exam_papers, qs) ==
    IF \E i \in DOMAIN exam_papers :
           paper_in_range(exam_papers[i], student_id, start_date, end_date)
               = "AttributeError"
    THEN [raised |-> "AttributeError"]
    ELSE LET filtered == filtered_papers(exam_papers, student_id, start_date, end_date)
             with_questions ==
                 SelectSeq(filtered, LAMBDA p: trend_paper_counts(p.id, qs).entry)
             unsorted == [i \in DOMAIN with_questions |->
                              trend_entry(with_questions[i], qs)]
             trend_data == SortByCreatedTime(unsorted)
         IN  [raised |-> "no",
              papers_in_range |-> Len(filtered),
              trend_data |-> trend_data,
              total_questions_all |-> SumOf(trend_data, "total_questions"),
              total_errors_all |-> SumOf(trend_data, "error_questions"),
              average_error_rate |-> average_error_rate(trend_data)]

(***************************************************************************)
(* pages/error_analysis.py, main: the weekly grouping of trend_data.        *)
(***************************************************************************)
\* pd.to_datetime(trend_df['created_time']) followed by the .dt accessor: a column
\* whose texts all have one form is converted; whether a column that mixes forms
\* or offsets is converted or refused depends on the mixture and on the pandas
\* version, so both outcomes are taken
SameForm(trend_data) ==
    \A i, j \in DOMAIN trend_data :
        /\ trend_data[i].created_time.frac = trend_data[j].created_time.frac
        /\ trend_data[i].created_time.zone = trend_data[j].created_time.zone

ToDatetimeOutcomes(trend_data) ==
    IF SameForm(trend_data) THEN {"ok"} ELSE {"ok", "raise"}

\* dt.to_period('W').dt.start_time: the Monday on or before the date
week_start(created_time) == created_time.date - ((created_time.date - 1) % 7)

RECURSIVE SortedSeqOf(_)
SortedSeqOf(S) ==
    IF S = {} THEN <<>>
    ELSE LET m == CHOOSE x \in S : \A y \in S : x <= y
         IN  <<m>> \o SortedSeqOf(S \ {m})

\* groupby('week') keeping the first row of each week in place of the sums
weekly_data_first(trend_data) ==
    LET weeks == SortedSeqOf({week_start(trend_data[i].created_time) :
                                  i \in DOMAIN trend_data})
    IN  [k \in DOMAIN weeks |->
            LET rows == SelectSeq(trend_data,
                                  LAMBDA e: week_start(e.created_time) = weeks[k])
            IN  [week |-> weeks[k],
                 total_questions |-> rows[1].total_questions,
                 error_questions |-> rows[1].error_questions,
                 paper_title |-> Len(rows),
                 error_rate |-> Percent(rows[1].error_questions,
                                        rows[1].total_questions)]]

\* groupby('week').agg(sum, sum, count).reset_index() and the weekly error rate
weekly_data(trend_data) ==
    LET weeks == SortedSeqOf({week_start(trend_data[i].created_time) :
                                  i \in DOMAIN trend_data})
    IN  [k \in DOMAIN weeks |->
            LET rows == SelectSeq(trend_data,
                                  LAMBDA e: week_start(e.created_time) = weeks[k])
                total == SumOf(rows, "total_questions")
                errors == SumOf(rows, "error_questions")
            IN  [week |-> weeks[k],
                 total_questions |-> total,
                 error_questions |-> errors,
                 paper_title |-> Len(rows),
                 error_rate |-> IF total > 0 THEN Percent(errors, total)
                                ELSE ZeroRate]]

\* what the trend tab holds after calculate_trend_analysis and the grouping
NoWeekly == [kind |-> "none", rows |-> <<>>]
WeeklyRaised == [kind |-> "raised", rows |-> <<>>]
Weekly(rows) == [kind |-> "weekly", rows |-> rows]

\* the inputs of a trend analysis, drawn in the initial state
TrendInput(student_id, start_date, end_date, exam_papers) ==
    [op |-> "trend_input", student_id |-> student_id, start_date |-> start_date,
     end_date |-> end_date, exam_papers |-> exam_papers]

\* calculate_trend_analysis on the drawn inputs and, when it returns entries, the
\* weekly grouping main makes of them
CalculateTrendAnalysis ==
    /\ request.op = "trend_input"
    /\ request.start_date <= request.end_date
    /\ LET ret == calculate_trend_analysis(request.student_id, request.start_date,
                                           request.end_date, request.exam_papers,
                                           questions)
       IN  \E pandas \in IF ret.raised = "no" THEN ToDatetimeOutcomes(ret.trend_data)
                         ELSE {"ok"} :
               result' = [op |-> "calculate_trend_analysis",
                          ret |-> ret,
                          weekly |-> IF ret.raised # "no" THEN NoWeekly
                                     ELSE IF ret.trend_data = <<>> THEN NoWeekly
                                     ELSE IF pandas = "raise" THEN WeeklyRaised
                                     ELSE Weekly(weekly_data(ret.trend_data))]
    /\ UNCHANGED <<questions, tables, nextId, request, dbLog, response, cos, session>>

NextTrend == CalculateTrendAnalysis

TrendIdle ==
    /\ cos = NoCos
    /\ session = NoSession
    /\ result = [op |-> "none"]
    /\ tables = NoTables
    /\ nextId = 1
    /\ dbLog = <<>>
    /\ response = [kind |-> "none"]

\* exam papers as the backend lists them: the id of a row is its place in the list
WithIds(papers) ==
    [i \in DOMAIN papers |-> [id |-> i, student_id |-> papers[i].student_id,
                              created_time |-> papers[i].created_time]]

(***************************************************************************)
(* SpecTrendSelect: the selection of papers, over every kind of             *)
(* created_time, with one question recorded for each paper.                 *)
(***************************************************************************)
MaxPapers == 2          \* longest exam paper list drawn

Dates == {1, 8, 10}
Ranges == {<<1, 8>>, <<8, 10>>}

\* the first instant of a day, its last whole second, and half a second after that
DayEnds == {<<0, "">>, <<LastSecond, "">>, <<LastSecond, ".500000">>}

NaiveTime == IsoTime(8, 0, "", "")

SelectTimes ==
    {IsoTime(d, e[1], e[2], z) : d \in Dates, e \in DayEnds, z \in {"Z", "+08:00"}}
        \cup {NaiveTime, NotIsoText, NoneTime, IntTime}

SelectPapers ==
    {WithIds(ps) : ps \in SeqsUpTo([student_id : StudentIds,
                                    created_time : SelectTimes], MaxPapers)}

\* one wrong question of student 1 for each paper
OneQuestionEach ==
    [i \in 1..MaxPapers |-> [exam_paper_id |-> i, student_id |-> 1, is_correct |-> "false"]]

InitTrendSelect ==
    /\ TrendIdle
    /\ questions = OneQuestionEach
    /\ \E range \in Ranges, papers \in SelectPapers :
           request = TrendInput(1, range[1], range[2], papers)

SpecTrendSelect == InitTrendSelect /\ [][NextTrend]_vars

(***************************************************************************)
(* Claims about the selection of papers, stated over SpecTrendSelect.       *)
(***************************************************************************)
TrendDone == result.op = "calculate_trend_analysis"
TrendReturned == TrendDone /\ result.ret.raised = "no"

\* a created_time that names an instant: an ISO timestamp with an offset
WellFormed(created_time) == created_time.form = "iso" /\ created_time.zone # ""

InstantOf(created_time) ==
    Instant(created_time.date, created_time.time, HalfSeconds(created_time.frac),
            OffsetHours(created_time.zone))

\* the UTC calendar date an instant lies in
UtcDate(instant) == instant \div (2 * 86400)

\* the papers of the asked student created within [start 00:00:00Z, end 23:59:59Z]
InClosedInterval ==
    {i \in DOMAIN request.exam_papers :
        LET p == request.exam_papers[i]
        IN  /\ p.student_id = request.student_id
            /\ WellFormed(p.created_time)
            /\ Instant(request.start_date, 0, 0, 0) <= InstantOf(p.created_time)
            /\ InstantOf(p.created_time) <= Instant(request.end_date, LastSecond, 0, 0)}

\* the papers of the asked student created on a UTC date from start to end
OnDatesInRange ==
    {i \in DOMAIN request.exam_papers :
        LET p == request.exam_papers[i]
        IN  /\ p.student_id = request.student_id
            /\ WellFormed(p.created_time)
            /\ request.start_date <= UtcDate(InstantOf(p.created_time))
            /\ UtcDate(InstantOf(p.created_time)) <= request.end_date}

SelectedIds ==
    {result.ret.trend_data[k].paper_id : k \in DOMAIN result.ret.trend_data}

\* exams created on 2024-01-01 and 2024-01-10, asked for 2024-01-01..2024-01-08
C12_Example ==
    /\ request.op = "trend_input"
    /\ request.start_date = 1
    /\ request.end_date = 8
    /\ request.exam_papers =
           <<[id |-> 1, student_id |-> 1, created_time |-> IsoTime(1, 0, "", "Z")],
             [id |-> 2, student_id |-> 1, created_time |-> IsoTime(10, 0, "", "Z")]>>

\* C12: whenever calculate_trend_analysis returns, it has selected exactly the exams
\* whose student_id is the given student's and whose creation instant lies in the
\* closed interval [start date 00:00:00 UTC, end date 23:59:59 UTC]; exams of other
\* students and exams outside the interval contribute nothing; of exams created on
\* 2024-01-01 and 2024-01-10 the range 2024-01-01..2024-01-08 selects the first.
C12_SelectsStudentExamsInRange ==
    TrendReturned =>
        /\ result.ret.papers_in_range = Cardinality(InClosedInterval)
        /\ SelectedIds = InClosedInterval
        /\ Len(result.ret.trend_data) = Cardinality(InClosedInterval)
        /\ C12_Example => SelectedIds = {1}

C12_Witness ==
    /\ TrendReturned
    /\ C12_Example
    /\ result.ret.papers_in_range = 1
    /\ SelectedIds = {1}

\* C13: the date range is inclusive at whole-day boundaries: an exam of the student
\* created at any instant of the start date or of the end date (UTC), the last
\* second of the end date and any sub-second instant within it included, is selected.
C13_WholeDaysInclusive ==
    TrendReturned => OnDatesInRange \subseteq SelectedIds

\* the exam paper list with every paper of a malformed created_time taken out
WithoutMalformed ==
    SelectSeq(request.exam_papers, LAMBDA p: WellFormed(p.created_time))

\* C14: an exam whose created_time is malformed (missing, no parseable ISO
\* timestamp, without an offset, or no string at all) is skipped silently: the call
\* does not raise and returns what it returns for the list without that exam.
C14_MalformedSkippedSilently ==
    TrendDone =>
        /\ result.ret.raised = "no"
        /\ result.ret = calculate_trend_analysis(request.student_id, request.start_date,
                                                 request.end_date, WithoutMalformed,
                                                 questions)

(***************************************************************************)
(* SpecTrendCount: the counts of a trend analysis, over question lists of   *)
(* two students and papers of the asked student in one week or in two.      *)
(***************************************************************************)
CountTimes == {IsoTime(1, 0, "", "Z"), IsoTime(8, 0, "", "Z"), IsoTime(10, 0, "", "+08:00")}

CountPapers ==
    {WithIds(ps) : ps \in SeqsUpTo([student_id : {1}, created_time : CountTimes],
                                   MaxPapers)}

\* the questions of student 1, right or wrong, and wrong questions of student 2
TrendQuestionDicts ==
    [exam_paper_id : PaperIds, student_id : {1}, is_correct : {"true", "false"}]
        \cup [exam_paper_id : PaperIds, student_id : {2}, is_correct : {"false"}]

InitTrendCount ==
    /\ TrendIdle
    /\ questions \in SeqsUpTo(TrendQuestionDicts, MaxQuestions)
    /\ \E papers \in CountPapers : request = TrendInput(1, 1, 10, papers)

SpecTrendCount == InitTrendCount /\ [][NextTrend]_vars

(***************************************************************************)
(* SpecTrendSort: the order of trend_data, over every textual form of a     *)
(* timestamp.                                                               *)
(***************************************************************************)
SortTimes ==
    {IsoTime(d, t, f, z) : d \in {1, 8}, t \in {18000, 36000}, f \in Fractions,
                           z \in {"Z", "+00:00", "+08:00"}}

SortPapers ==
    {WithIds(ps) : ps \in SeqsUpTo([student_id : {1}, created_time : SortTimes],
                                   MaxPapers)}

InitTrendSort ==
    /\ TrendIdle
    /\ questions = OneQuestionEach
    /\ \E papers \in SortPapers : request = TrendInput(1, 1, 10, papers)

SpecTrendSort == InitTrendSort /\ [][NextTrend]_vars

(***************************************************************************)
(* Claims about the counts, the weekly grouping, the order and the mean.    *)
(***************************************************************************)
TrendData == result.ret.trend_data

\* C15: for every selected exam, the total and error counts recorded for it equal
\* total_questions and error_questions of calculate_error_rate for the same
\* student, that exam's id and the same question list.
C15_CountsAsCalculateErrorRate ==
    TrendReturned =>
        \A k \in DOMAIN TrendData :
            LET rate == calculate_error_rate(request.student_id, TrendData[k].paper_id,
                                             questions)
            IN  /\ TrendData[k].total_questions = rate.total_questions
                /\ TrendData[k].error_questions = rate.error_questions

WeeklyDone == TrendReturned /\ result.weekly.kind = "weekly"
WeeklyRows == result.weekly.rows

\* the totals and errors of the questions counted for the selected exams
CountedQuestions ==
    {i \in DOMAIN questions :
        \E k \in DOMAIN TrendData : questions[i].exam_paper_id = TrendData[k].paper_id}

RECURSIVE SumOver(_, _, _)
SumOver(rows, field, n) ==
    IF n = 0 THEN 0 ELSE rows[n][field] + SumOver(rows, field, n - 1)

C17_SortedByInstant ==
    TrendReturned =>
        \A k, l \in DOMAIN TrendData :
            k < l => InstantOf(TrendData[k].created_time)
                         <= InstantOf(TrendData[l].created_time)

\* the rates of the entries brought to their common denominator and added
RECURSIVE DenProduct(_, _)
DenProduct(entries, n) ==
    IF n = 0 THEN 1 ELSE entries[n].error_rate.den * DenProduct(entries, n - 1)

RECURSIVE ScaledSum(_, _, _)
ScaledSum(entries, n, common) ==
    IF n = 0 THEN 0
    ELSE entries[n].error_rate.num * (common \div entries[n].error_rate.den)
             + ScaledSum(entries, n - 1, common)

\* C18: average_error_rate is the unweighted mean of the per-exam error rates of
\* the entries of trend_data, is 0 when trend_data is empty, and lies between 0 and
\* 100.
C18_UnweightedMean ==
    TrendReturned =>
        LET avg == result.ret.average_error_rate
            n == Len(TrendData)
            common == DenProduct(TrendData, n)
        IN  /\ avg.den > 0
            /\ 0 <= avg.num
            /\ avg.num <= 100 * avg.den
            /\ n = 0 => avg.num = 0
            /\ avg.num * common * n = ScaledSum(TrendData, n, common) * avg.den

\* one exam with its only question wrong and one with both questions right: the mean
\* of the rates is 50, the rate over all three questions is not
C18_Witness ==
    /\ TrendReturned
    /\ Len(TrendData) = 2
    /\ result.ret.total_questions_all = 3
    /\ result.ret.total_errors_all = 1
    /\ \E k \in 1..2 : TrendData[k].total_questions = 1 /\ TrendData[k].error_questions = 1
    /\ result.ret.average_error_rate.num = 50 * result.ret.average_error_rate.den

(***************************************************************************)
(* cos_uploader.py: ExamPaperCOSManager.  cos holds the manager's           *)
(* configuration (self), the bucket (objects, key -> body), the successful  *)
(* put_object calls in order (puts), the uuids that uuid4 has returned      *)
(* (issued).  The reading of the clock at a call is an input.  An object    *)
(* key is kept as the pieces its text is formatted from; a piece that a key *)
(* has not is None_, "" or <<>>.  A file name of the caller is              *)
(* [given, path]: given is FALSE for None, path is the text split at "/".   *)
(* A method gives [cos, response].                                          *)
(***************************************************************************)
\* uuid.uuid4() never returns a value twice; a uuid is its first eight characters
\* and the rest
Uuids == [head : {"aaaaaaaa", "bbbbbbbb"}, rest : {"-1", "-2"}]

\* str(uuid.uuid4())[:8]
unique_id(uuid) == uuid.head

\* f"exam_papers/{exam_paper_id}/page_{image_index}_{timestamp}_{unique_id}.jpg", and
\* f"exam_papers/{exam_paper_id}/{timestamp}_{unique_id}.jpg" when image_index is None
ExamPaperKey(exam_paper_id, image_index, timestamp, unique) ==
    [prefix |-> "exam_papers", exam |-> exam_paper_id, page |-> image_index,
     timestamp |-> timestamp, unique |-> unique, name |-> <<>>]

\* f"uploads/{timestamp}_{unique_id}.jpg"
UploadsKey(timestamp, unique) ==
    [prefix |-> "uploads", exam |-> None_, page |-> None_,
     timestamp |-> timestamp, unique |-> unique, name |-> <<>>]

\* filename.startswith('uploads/'), filename.startswith('exam_papers/')
StartsWith(filename, dir) == Len(filename.path) > 1 /\ filename.path[1] = dir

\* a file name the caller chose, under uploads/: it gets the prefix unless it has it
\* already
NamedKey(filename) ==
    [prefix |-> "uploads", exam |-> None_, page |-> None_,
     timestamp |-> None_, unique |-> "",
     name |-> IF StartsWith(filename, "uploads") THEN Tail(filename.path)
              ELSE filename.path]

\* f"https://{bucket_name}.cos.{region}.myqcloud.com/{filename}"
PublicUrl(bucket, reg, filename) ==
    [kind |-> "public", scheme |-> "https", bucket |-> bucket, region |-> reg,
     host |-> "myqcloud.com", key |-> filename]

\* client.put_object: the object under Key is written, replacing what was there
PutObject(c, key, body, derived) ==
    [c EXCEPT !.objects = [k \in DOMAIN c.objects \cup {key} |->
                              IF k = key THEN body ELSE c.objects[k]],
              !.puts = Append(@, [key |-> key, body |-> body, derived |-> derived])]

\* uuid.uuid4() has been called
Drawn(c, uuid) == [c EXCEPT !.issued = @ \cup {uuid}]

\* upload_exam_paper_image(image_file, exam_paper_id, image_index)
upload_exam_paper_image(image_data, exam_paper_id, image_index, timestamp, uuid, outcome, c) ==
    LET filename == ExamPaperKey(exam_paper_id, image_index, timestamp, unique_id(uuid))
        drawn == Drawn(c, uuid)
    IN  IF outcome = "ok"
        THEN [cos |-> PutObject(drawn, filename, image_data, TRUE),
              response |-> [kind |-> "upload", success |-> TRUE, filename |-> filename,
                            url |-> PublicUrl(c.self.bucket_name, c.self.region, filename)]]
        ELSE [cos |-> drawn,
              response |-> [kind |-> "upload", success |-> FALSE,
                            error |-> "put_object raised"]]

\* upload_image(file_data, filename=None); "unnamed" stands for filename None
upload_image(file_data, filename, timestamp, uuid, outcome, c) ==
    LET unnamed == ~filename.given
        key == IF unnamed THEN UploadsKey(timestamp, unique_id(uuid))
               ELSE NamedKey(filename)
        drawn == IF unnamed THEN Drawn(c, uuid) ELSE c
    IN  IF outcome = "ok"
        THEN [cos |-> PutObject(drawn, key, file_data, unnamed),
              response |-> [kind |-> "upload", success |-> TRUE, filename |-> key,
                            url |-> PublicUrl(c.self.bucket_name, c.self.region, key)]]
        ELSE [cos |-> drawn,
              response |-> [kind |-> "upload", success |-> FALSE,
                            error |-> "put_object raised"]]

\* get_image_url(filename)
get_image_url(self, filename) == PublicUrl(self.bucket_name, self.region, filename)

\* what client.get_presigned_url does: it raises, or returns a signed URL
SigningRaises == [raised |-> TRUE, url |-> [kind |-> "none"]]
Signed(filename, expires_in) ==
    [raised |-> FALSE,
     url |-> [kind |-> "signed", key |-> filename, expired |-> expires_in,
              signature |-> "q-signature"]]

\* get_presigned_url with no except clause
get_presigned_url_unprotected(self, filename, expires_in, signing) ==
    IF signing.raised THEN [kind |-> "raised"] ELSE signing.url

\* get_presigned_url(filename, expires_in)
get_presigned_url(self, filename, expires_in, signing) ==
    IF signing.raised THEN get_image_url(self, filename) ELSE signing.url

\* get_safe_image_url(filename, use_presigned, expires_in)
get_safe_image_url(self, filename, use_presigned, expires_in, signing) ==
    IF use_presigned THEN get_presigned_url(self, filename, expires_in, signing)
    ELSE get_image_url(self, filename)

(***************************************************************************)
(* SpecCos: uploads and URL requests against one bucket.                    *)
(***************************************************************************)
MaxUploads == 2         \* put_object calls that succeed before uploads stop

\* int(time.time()) at a call
Timestamps == {1, 2}

ImageData == {"jpeg"}
ImageIndexes == {None_, 1}
Unnamed == [given |-> FALSE, path |-> <<>>]
Filenames == {Unnamed, [given |-> TRUE, path |-> <<"a.jpg">>],
              [given |-> TRUE, path |-> <<"uploads", "a.jpg">>]}
ExpiresIn == {3600}

InitCos ==
    /\ AnalyticsIdle
    /\ BackendIdle

Answered(req, out) ==
    /\ request' = req
    /\ response' = out.response
    /\ cos' = out.cos
    /\ UNCHANGED <<questions, result, tables, nextId, dbLog, session>>

UploadExamPaperImage ==
    \E image_data \in ImageData, image_index \in ImageIndexes, outcome \in Outcomes :
        \E timestamp \in Timestamps, uuid \in Uuids \ cos.issued :
            /\ Len(cos.puts) < MaxUploads
            /\ Answered([op |-> "upload_exam_paper_image", exam_paper_id |-> 1,
                         image_index |-> image_index, timestamp |-> timestamp,
                         uuid |-> uuid],
                        upload_exam_paper_image(image_data, 1, image_index, timestamp,
                                                uuid, outcome, cos))

UploadImage ==
    \E file_data \in ImageData, filename \in Filenames, outcome \in Outcomes :
        \E timestamp \in Timestamps, uuid \in Uuids \ cos.issued :
            /\ Len(cos.puts) < MaxUploads
            /\ Answered([op |-> "upload_image", filename |-> filename,
                         timestamp |-> timestamp, uuid |-> uuid],
                        upload_image(file_data, filename, timestamp, uuid, outcome, cos))

\* the keys a URL is asked for: those of the bucket, and one it does not hold
UrlKeys ==
    DOMAIN cos.objects \cup {NamedKey([given |-> TRUE, path |-> <<"uploads", "b.jpg">>])}

GetPresignedUrl ==
    \E filename \in UrlKeys, expires_in \in ExpiresIn :
        \E signing \in {SigningRaises, Signed(filename, expires_in)} :
            Answered([op |-> "get_presigned_url", filename |-> filename,
                      use_presigned |-> TRUE, expires_in |-> expires_in,
                      signing |-> signing],
                     [cos |-> cos,
                      response |-> [kind |-> "url",
                                    url |-> get_presigned_url(cos.self, filename,
                                                              expires_in, signing)]])

GetSafeImageUrl ==
    \E filename \in UrlKeys, expires_in \in ExpiresIn, use_presigned \in BOOLEAN :
        \E signing \in {SigningRaises, Signed(filename, expires_in)} :
            Answered([op |-> "get_safe_image_url", filename |-> filename,
                      use_presigned |-> use_presigned, expires_in |-> expires_in,
                      signing |-> signing],
                     [cos |-> cos,
                      response |-> [kind |-> "url",
                                    url |-> get_safe_image_url(cos.self, filename,
                                                               use_presigned,
                                                               expires_in, signing)]])

NextCos == UploadExamPaperImage \/ UploadImage \/ GetPresignedUrl \/ GetSafeImageUrl

SpecCos == InitCos /\ [][NextCos]_vars

(***************************************************************************)
(* Claims about object keys and URLs.                                      *)
(***************************************************************************)
\* C19: key derivation never collides: two uploads through upload_exam_paper_image
\* with the same exam id and index, or two unnamed uploads through upload_image, made
\* at the same timestamp get different object keys, so a later upload never
\* overwrites an earlier object.
C19_DerivedKeysNeverCollide ==
    \A i, j \in DOMAIN cos.puts :
        (i < j /\ cos.puts[i].derived /\ cos.puts[j].derived)
            => cos.puts[i].key # cos.puts[j].key

\* C20: get_presigned_url and get_safe_image_url never raise: when the provider's
\* signing call raises they return the public URL
\* https://{bucket}.cos.{region}.myqcloud.com/{key} of the same key, and when it
\* succeeds they return the provider's signed URL unchanged.
C20_SigningFallsBackToPublicUrl ==
    response.kind = "url" =>
        /\ response.url.kind # "raised"
        /\ (request.use_presigned /\ request.signing.raised) =>
               response.url = [kind |-> "public", scheme |-> "https",
                               bucket |-> bucket_name, region |-> region,
                               host |-> "myqcloud.com", key |-> request.filename]
        /\ (request.use_presigned /\ ~request.signing.raised) =>
               response.url = request.signing.url

\* the URL of a stored object was asked for through get_safe_image_url, signing raised
C20_Witness ==
    /\ response.kind = "url"
    /\ request.op = "get_safe_image_url"
    /\ request.use_presigned
    /\ request.signing.raised
    /\ request.filename \in DOMAIN cos.objects
    /\ response.url.kind = "public"
    /\ response.url.key = request.filename

(***************************************************************************)
(* pages/exam_paper_detail.py: the URL an image of the paper is shown       *)
(* through.  image_url is the text stored with the image: the public URL    *)
(* an upload returned, or a URL outside COS.                                *)
(***************************************************************************)
\* the regions the secrets can name
Regions == {"ap-beijing", "ap-guangzhou", "ap-shanghai"}

\* a URL that is not one of COS
ExternalUrl == [kind |-> "external", text |-> "https://example.com/a.jpg"]

\* 'cos.ap-guangzhou.myqcloud.com' in image_url: of the URLs formed here, those
\* whose host names the region ap-guangzhou
NamesGuangzhou(image_url) ==
    image_url.kind = "public" /\ image_url.region = "ap-guangzhou"

\* image_url.split('.myqcloud.com/')[-1]
KeyOfUrl(image_url) == image_url.key

\* display_url of show_exam_paper_detail for one image
display_url(self, image_url, signing) ==
    IF NamesGuangzhou(image_url)
    THEN get_safe_image_url(self, KeyOfUrl(image_url), TRUE, 7200, signing)
    ELSE image_url

(***************************************************************************)
(* SpecDisplay: uploads through a manager configured for any region, and    *)
(* the display of the stored images.                                        *)
(***************************************************************************)
InitDisplay ==
    /\ AnalyticsIdle
    /\ tables = NoTables
    /\ nextId = 1
    /\ request = [op |-> "none"]
    /\ dbLog = <<>>
    /\ response = [kind |-> "none"]
    /\ \E r \in Regions : cos = [NoCos EXCEPT !.self.region = r]
    /\ session = NoSession

\* the image_url of the images of a paper: the URLs the uploads returned, and one
\* from elsewhere
ImageUrls ==
    {PublicUrl(cos.self.bucket_name, cos.self.region, key) : key \in DOMAIN cos.objects}
        \cup {ExternalUrl}

DisplayImage ==
    \E image_url \in ImageUrls :
        \E signing \in {SigningRaises,
                        Signed(IF image_url.kind = "public" THEN KeyOfUrl(image_url)
                               ELSE "", 7200)} :
            Answered([op |-> "display_image", image_url |-> image_url,
                      signing |-> signing],
                     [cos |-> cos,
                      response |-> [kind |-> "display",
                                    url |-> display_url(cos.self, image_url, signing)]])

NextDisplay == UploadExamPaperImage \/ DisplayImage

SpecDisplay == InitDisplay /\ [][NextDisplay]_vars

\* C21: an image that was uploaded to the configured bucket is displayed through a
\* signed URL for the key the upload stored, with an expiry of 7200 seconds, in
\* every configured region (the signing call succeeding).
C21_UploadedImageShownSigned ==
    (/\ response.kind = "display"
     /\ request.image_url.kind = "public"
     /\ request.image_url.key \in DOMAIN cos.objects
     /\ ~request.signing.raised)
        => /\ response.url.kind = "signed"
           /\ response.url.key = request.image_url.key
           /\ response.url.expired = 7200

(***************************************************************************)
(* pages/login.py and the script of streamlit_app.py.  session is          *)
(* st.session_state: a function from the keys present to their values,     *)
(* the values written as text ("True", "False", "None", "1", "admin").     *)
(* The authenticator is a library: what its login and logout calls do to   *)
(* the session is an input of the step that calls them.                    *)
(***************************************************************************)
\* st.session_state.get(key, default)
SessionGet(s, key, default) == IF key \in DOMAIN s THEN s[key] ELSE default

\* st.session_state[key] = value
SessionSet(s, key, value) == [k \in DOMAIN s \cup {key} |-> IF k = key THEN value ELSE s[k]]

\* del st.session_state[key], for the keys that are present
SessionDel(s, keys) == [k \in DOMAIN s \ keys |-> s[k]]

\* truth of a value in an if
IsTruthy(value) == value \notin {"None", "False", ""}

\* what authenticator.login leaves in the session: nothing entered and no cookie
\* (status None), a wrong password (False), or a form or a cookie accepted (True, with
\* the user's name)
LoginOutcomes ==
    {[authentication_status |-> "None", name |-> "None", username |-> "None"],
     [authentication_status |-> "False", name |-> "None", username |-> "admin"],
     [authentication_status |-> "True", name |-> "admin", username |-> "admin"]}

AuthenticatorLogin(s, o) ==
    SessionSet(SessionSet(SessionSet(s, "authentication_status", o.authentication_status),
                          "name", o.name), "username", o.username)

\* what authenticator.logout does: "reset" clears the library's keys, "idle" renders
\* a button nobody pressed, "TypeError" and "error" raise before anything is changed
LogoutOutcomes == {"reset", "idle", "TypeError", "error"}

AuthenticatorLogout(s, o) ==
    IF o = "reset"
    THEN SessionSet(SessionSet(SessionSet(s, "authentication_status", "None"),
                               "name", "None"), "username", "None")
    ELSE s

\* check_login with the flag left alone when the status is not True
check_login_unsynced(s) ==
    LET auth_status == SessionGet(s, "authentication_status", "None")
    IN  IF auth_status = "True"
        THEN [session |-> SessionSet(s, "logged_in", "True"), ret |-> TRUE]
        ELSE [session |-> s, ret |-> FALSE]

\* check_login()
check_login(s) ==
    LET auth_status == SessionGet(s, "authentication_status", "None")
    IN  IF auth_status = "True"
        THEN [session |-> SessionSet(s, "logged_in", "True"), ret |-> TRUE]
        ELSE [session |-> SessionSet(s, "logged_in", "False"), ret |-> FALSE]

\* show_login_page(): the login widget, then the session keys of a successful login
show_login_page(s, authenticator, o) ==
    IF ~authenticator THEN s
    ELSE LET s1 == AuthenticatorLogin(s, o)
             authentication_status == SessionGet(s1, "authentication_status", "None")
             name == SessionGet(s1, "name", "None")
             username == SessionGet(s1, "username", "None")
             s2 == SessionSet(s1, "logged_in", "True")
             s3 == IF IsTruthy(username) THEN SessionSet(s2, "username", username) ELSE s2
             s4 == IF IsTruthy(name) THEN SessionSet(s3, "name", name) ELSE s3
             s5 == SessionSet(s4, "user_id", SessionGet(s4, "user_id", "1"))
         IN  IF authentication_status \in {"False", "None"} THEN s1
             ELSE SessionSet(s5, "student_id", SessionGet(s5, "student_id", "1"))

\* logout() that leaves the session alone when the authenticator's call raises
logout_unless_raised(s, authenticator, first, second) ==
    LET s1 == IF ~authenticator THEN s
              ELSE IF first = "TypeError" THEN AuthenticatorLogout(s, second)
              ELSE AuthenticatorLogout(s, first)
        raised == authenticator /\ (first = "error" \/ (first = "TypeError"
                                                        /\ second \in {"TypeError", "error"}))
        s2 == SessionSet(SessionSet(s1, "logged_in", "False"),
                         "authentication_status", "None")
    IN  IF raised THEN s1
        ELSE SessionDel(s2, {"username", "name", "user_id", "student_id"})

\* logout(): first and second are what authenticator.logout() and, after a
\* TypeError, authenticator.logout(location='unrendered', ...) do
logout(s, authenticator, first, second) ==
    LET s1 == IF ~authenticator THEN s
              ELSE IF first = "TypeError" THEN AuthenticatorLogout(s, second)
              ELSE AuthenticatorLogout(s, first)
        s2 == SessionSet(SessionSet(s1, "logged_in", "False"),
                         "authentication_status", "None")
    IN  SessionDel(s2, {"username", "name", "user_id", "student_id"})

\* show_logout_button(): the library's button in the sidebar; a TypeError of the
\* first call is answered by a second call, any other exception leaves the function
show_logout_button(s, authenticator, first, second) ==
    IF ~authenticator THEN [session |-> s, raised |-> FALSE]
    ELSE LET o == IF first = "TypeError" THEN second ELSE first
         IN  [session |-> AuthenticatorLogout(s, o),
              raised |-> o \in {"TypeError", "error"}]

\* the guard at the top of a page: st.stop() unless logged_in
page_renders(s) == IsTruthy(SessionGet(s, "logged_in", "False"))

(***************************************************************************)
(* SpecLogin: runs of the script of streamlit_app.py (check_login, then    *)
(* the login page or the logout button and a page), and calls of logout(). *)
(* request.op is the step last taken.                                      *)
(***************************************************************************)
Pages == {"exam_paper_detail", "error_analysis"}

InitLogin ==
    /\ AnalyticsIdle
    /\ BackendIdle

Stepped(req, out, s) ==
    /\ request' = req
    /\ response' = out
    /\ session' = s
    /\ UNCHANGED <<questions, result, tables, nextId, dbLog, cos>>

\* streamlit_app.py, line 82: a run of the script begins
CheckLogin ==
    /\ request.op # "check_login"
    /\ LET out == check_login(session)
       IN  Stepped([op |-> "check_login", before |-> session],
                   [kind |-> "check_login", ret |-> out.ret], out.session)

\* streamlit_app.py, line 83
ShowLoginPage ==
    /\ request.op = "check_login"
    /\ ~response.ret
    /\ \E authenticator \in BOOLEAN, o \in LoginOutcomes :
           Stepped([op |-> "show_login_page", before |-> session],
                   [kind |-> "page", rendered |-> "login"],
                   show_login_page(session, authenticator, o))

\* streamlit_app.py, lines 84-135: the logout button, the default student, and the
\* page that st.navigation runs; each page stops unless logged_in, and the detail
\* page gives student_id its default
RunPage ==
    /\ request.op = "check_login"
    /\ response.ret
    /\ \E authenticator \in BOOLEAN, first, second \in LogoutOutcomes, page \in Pages :
           LET button == show_logout_button(session, authenticator, first, second)
               s1 == SessionSet(button.session, "selected_student",
                                SessionGet(button.session, "selected_student", "1"))
               rendered == page_renders(s1)
               s2 == IF rendered /\ page = "exam_paper_detail"
                     THEN SessionSet(s1, "student_id", SessionGet(s1, "student_id", "1"))
                     ELSE s1
           IN  IF button.raised
               THEN Stepped([op |-> "run_page", before |-> session],
                            [kind |-> "page", rendered |-> "raised"], button.session)
               ELSE Stepped([op |-> "run_page", before |-> session],
                            [kind |-> "page",
                             rendered |-> IF rendered THEN page ELSE "stopped"], s2)

\* logout(), called between two runs of the script
Logout ==
    /\ request.op # "check_login"
    /\ \E authenticator \in BOOLEAN, first, second \in LogoutOutcomes :
           Stepped([op |-> "logout", before |-> session, authenticator |-> authenticator,
                    first |-> first, second |-> second],
                   [kind |-> "rerun"],
                   logout(session, authenticator, first, second))

NextLogin == CheckLogin \/ ShowLoginPage \/ RunPage \/ Logout

SpecLogin == InitLogin /\ [][NextLogin]_vars

(***************************************************************************)
(* Claims about the login flag.                                            *)
(***************************************************************************)
\* C22: after every call of check_login the flag logged_in equals
\* (authentication_status is True) and the value returned equals the flag; so when
\* the library has reset authentication_status to None, check_login sets logged_in
\* to False.
C22_FlagFollowsStatus ==
    response.kind = "check_login" =>
        LET is_true == SessionGet(request.before, "authentication_status", "None") = "True"
        IN  /\ "logged_in" \in DOMAIN session
            /\ (session["logged_in"] = "True") = is_true
            /\ session["logged_in"] \in {"True", "False"}
            /\ response.ret = is_true

\* check_login ran with logged_in True and the status reset to None by the library
C22_Witness ==
    /\ response.kind = "check_login"
    /\ SessionGet(request.before, "logged_in", "") = "True"
    /\ SessionGet(request.before, "authentication_status", "") = "None"
    /\ session["logged_in"] = "False"
    /\ ~response.ret

LoggedIn(s) == SessionGet(s, "logged_in", "False") = "True"

\* C23: after logout(), whatever the authenticator's own logout did, logged_in is
\* False, authentication_status is None and username, name, user_id and student_id
\* are absent; and the flag comes back, check_login returns True and a page renders
\* only with authentication_status True set by a new authentication.
C23_LogoutClearsSession ==
    /\ [](request.op = "logout" =>
             /\ SessionGet(session, "logged_in", "") = "False"
             /\ SessionGet(session, "authentication_status", "") = "None"
             /\ DOMAIN session \cap {"username", "name", "user_id", "student_id"} = {})
    /\ []((response.kind = "page" /\ response.rendered \in Pages) => LoggedIn(session))
    /\ [][(LoggedIn(session') /\ ~LoggedIn(session))
              => SessionGet(session', "authentication_status", "None") = "True"]_vars

\* logout() ran on a logged-in session while the authenticator's call raised
C23_Witness ==
    /\ request.op = "logout"
    /\ request.authenticator
    /\ request.first = "error"
    /\ LoggedIn(request.before)
    /\ "student_id" \in DOMAIN request.before
    /\ ~LoggedIn(session)

(***************************************************************************)
(* SpecPapers: the exam papers of a student, asked for through the wrapper *)
(* of the pages, over tables that hold papers of two students.             *)
(***************************************************************************)
PaperRows == [student_id : StudentIds, title : {"x", "y"}]

\* the rows of exam_paper, with the ids the backend gave them
StoredPapers(rows) ==
    [i \in DOMAIN rows |-> [id |-> i, student_id |-> rows[i].student_id,
                            title |-> rows[i].title]]

InitPapers ==
    /\ AnalyticsIdle
    /\ cos = NoCos
    /\ session = NoSession
    /\ request = [op |-> "none"]
    /\ dbLog = <<>>
    /\ response = [kind |-> "none"]
    /\ \E rows \in SeqsUpTo(PaperRows, MaxRows) :
           /\ tables = [NoTables EXCEPT !["exam_paper"] = StoredPapers(rows)]
           /\ nextId = Len(rows) + 1

\* get_exam_papers_by_student_id(student_id), of streamlit_app.py and of
\* pages/exam_paper_detail.py alike
GetExamPapersByStudentId ==
    \E student_id \in StudentIds :
        /\ request' = [op |-> "get_exam_papers_by_student_id", student_id |-> student_id]
        /\ response' = [kind |-> "papers",
                        ret |-> get_exam_papers_by_student_id(student_id)]
        /\ UNCHANGED <<questions, result, tables, nextId, dbLog, cos, session>>

NextPapers == GetExamPapersByStudentId

SpecPapers == InitPapers /\ [][NextPapers]_vars

\* C24: get_exam_papers_by_student_id(student_id) returns the exam papers whose
\* student_id is the given id, so the empty list only for a student with no paper
\* (no backend call fails here).
C24_ReturnsPapersOfStudent ==
    response.kind = "papers" =>
        response.ret = SelectSeq(tables["exam_paper"],
                                 LAMBDA p : p.student_id = request.student_id)

(***************************************************************************)
(* delete_file, and SpecDelete: named uploads and deletes by name.         *)
(***************************************************************************)
\* the key delete_file names for a file name of the caller: a name under uploads/
\* or under exam_papers/ is taken as it is, any other gets the prefix uploads/
DeleteKey(filename) ==
    IF StartsWith(filename, "exam_papers")
    THEN [prefix |-> "exam_papers", exam |-> None_, page |-> None_,
          timestamp |-> None_, unique |-> "", name |-> Tail(filename.path)]
    ELSE NamedKey(filename)

\* client.delete_object: the object under Key is gone, whether it was there or not
DeleteObject(c, key) ==
    [c EXCEPT !.objects = [k \in DOMAIN c.objects \ {key} |-> c.objects[k]]]

\* delete_file(filename); None has no startswith, and the except clause answers
delete_file(filename, outcome, c) ==
    IF filename.given /\ outcome = "ok"
    THEN [cos |-> DeleteObject(c, DeleteKey(filename)),
          response |-> [kind |-> "delete", success |-> TRUE,
                        filename |-> DeleteKey(filename)]]
    ELSE [cos |-> c,
          response |-> [kind |-> "delete", success |-> FALSE,
                        error |-> "delete_object raised"]]

\* the names a caller gives: bare, under uploads/, under exam_papers/
GivenNames ==
    {[given |-> TRUE, path |-> p] :
        p \in {<<"a.jpg">>, <<"b.jpg">>, <<"uploads", "a.jpg">>, <<"exam_papers", "a.jpg">>}}

InitDelete ==
    /\ AnalyticsIdle
    /\ BackendIdle

\* upload_image(file_data, filename) with a name: neither the clock nor uuid4 is asked
UploadNamedImage ==
    \E file_data \in ImageData, filename \in GivenNames, outcome \in Outcomes :
        /\ Len(cos.puts) < MaxUploads
        /\ Answered([op |-> "upload_image", filename |-> filename],
                    upload_image(file_data, filename, None_,
                                 CHOOSE uuid \in Uuids : TRUE, outcome, cos))

DeleteFile ==
    \E filename \in GivenNames \cup {Unnamed} :
        \E outcome \in Outcomes :
            Answered([op |-> "delete_file", filename |-> filename],
                     delete_file(filename, outcome, cos))

NextDelete == UploadNamedImage \/ DeleteFile

SpecDelete == InitDelete /\ [][NextDelete]_vars

\* C25: for every name of the caller, delete_file(name) names the key under which
\* upload_image(data, name) stores the object, so after a successful delete of a name
\* the bucket holds no object uploaded under that name.
C25_DeleteNamesUploadKey ==
    (request.op = "delete_file" /\ response.success)
        => /\ response.filename = NamedKey(request.filename)
           /\ NamedKey(request.filename) \notin DOMAIN cos.objects

(***************************************************************************)
(* The two batch implementations compared.                                 *)
(***************************************************************************)
\* C26: every row that the /questions/batch route or
\* APIService.create_questions_batch sends to the backend carries the batch's
\* exam_paper_id, student_id, image_id and remark, with the item's content and
\* is_correct, so that both insert the same rows for the same request.
C26_BatchRowsCarryBatchFields ==
    IsBatch =>
        \A k \in DOMAIN dbLog :
            dbLog[k].op = "insert" =>
                LET payload == dbLog[k].payload
                    item == request.body.questions[k]
                IN  /\ {"exam_paper_id", "student_id", "image_id", "remark",
                        "content", "is_correct"} \subseteq DOMAIN payload
                    /\ payload.exam_paper_id = request.body.exam_paper_id
                    /\ payload.student_id = request.body.student_id
                    /\ payload.image_id = request.body.image_id
                    /\ payload.remark = request.body.remark
                    /\ payload.content = item.content
                    /\ payload.is_correct = item.is_correct

(***************************************************************************)
(* Selected exams without questions.                                       *)
(***************************************************************************)
\* the selected exams that have a question in the question list
WithQuestions ==
    {i \in InClosedInterval :
        \E j \in DOMAIN questions :
            questions[j].exam_paper_id = request.exam_papers[i].id}

\* C27: trend_data has at most papers_in_range entries, and exactly that many when
\* every selected exam has a question in the list; a selected exam with no question
\* counts in papers_in_range but has no entry, so it adds nothing to
\* total_questions_all, total_errors_all or the average.
C27_ExamsWithoutQuestionsLeftOut ==
    TrendReturned =>
        /\ result.ret.papers_in_range = Cardinality(InClosedInterval)
        /\ Len(TrendData) <= result.ret.papers_in_range
        /\ (Len(TrendData) = result.ret.papers_in_range)
               <=> (WithQuestions = InClosedInterval)
        /\ Len(TrendData) = Cardinality(WithQuestions)
        /\ SelectedIds = {request.exam_papers[i].id : i \in WithQuestions}
        /\ \A k \in DOMAIN TrendData : TrendData[k].total_questions > 0
        /\ result.ret.total_questions_all
               = SumOver(TrendData, "total_questions", Len(TrendData))
        /\ result.ret.total_errors_all
               = SumOver(TrendData, "error_questions", Len(TrendData))
        /\ (WithQuestions = {}) => result.ret.average_error_rate.num = 0

\* two exams selected, one of them with no question: one entry
C27_Witness ==
    /\ TrendReturned
    /\ result.ret.papers_in_range = 2
    /\ Len(TrendData) = 1
    /\ result.ret.total_questions_all = 2
    /\ result.ret.total_errors_all = 1

(***************************************************************************)
(* Deletes and what they report.                                           *)
(***************************************************************************)
\* C28: a delete reported as successful leaves no row with that id in the table:
\* when DELETE /{resource}/{id} answers with its success message the row with that id
\* is absent afterwards, and a delete answered with an error leaves the tables as
\* they were.
C28_ReportedDeleteRemovesRow ==
    request.op = "DELETE" =>
        /\ response.kind = "message" =>
               \A k \in DOMAIN tables[TableOf(request.resource)] :
                   tables[TableOf(request.resource)][k].id # request.id
        /\ response.kind = "error" => tables = request.before

(***************************************************************************)
(* APIService.authenticate_user, and SpecAuth: users created through       *)
(* POST /users and through APIService.create_user, then authenticated.     *)
(***************************************************************************)
\* authenticate_user(username, password): user.get("password_hash") is None for a
\* row that has no such column, and None equals no password
authenticate_user(username, password, outcome, db) ==
    LET r == select_data("user", [username |-> username], outcome, db)
        user == r.ret.data[1]
    IN  IF Falsy(r.ret) THEN [db |-> r.db, ret |-> ValueNone]
        ELSE IF "password_hash" \in DOMAIN user /\ user.password_hash = password
        THEN [db |-> r.db, ret |-> Value(user)]
        ELSE [db |-> r.db, ret |-> ValueNone]

MaxUsers == 2           \* most rows of the user table

Usernames == {"u", "v"}
Passwords == {"p", "q"}

\* what is typed as a password at a login: a password, or the digest of one
TypedPasswords == Passwords \cup {sha256_hexdigest("p")}

UserBodies == [username : Usernames, password : Passwords]

InitAuth ==
    /\ AnalyticsIdle
    /\ BackendIdle

\* POST /users
RouteCreateUser ==
    \E body \in UserBodies :
        \E outcomes \in [select : {"ok"}, write : Outcomes] :
            /\ Len(tables["user"]) < MaxUsers
            /\ Handled([op |-> "route_create_user", body |-> body,
                        outcomes |-> outcomes, before |-> tables["user"]],
                       route_create("users", body, outcomes, DbNow))
            /\ UNCHANGED <<questions, result, cos, session>>

\* APIService.create_user(user_data)
ServiceCreateUser ==
    \E body \in UserBodies :
        \E outcome \in Outcomes :
            /\ Len(tables["user"]) < MaxUsers
            /\ LET out == service_create("users", DataDict(body), outcome, DbNow)
               IN  Handled([op |-> "service_create_user", body |-> body,
                            outcome |-> outcome, before |-> tables["user"]],
                           [db |-> out.db,
                            response |-> [kind |-> "value", ret |-> out.ret]])
            /\ UNCHANGED <<questions, result, cos, session>>

\* APIService.authenticate_user(username, password)
AuthenticateUser ==
    \E username \in Usernames, password \in TypedPasswords :
        \E outcome \in Outcomes :
            /\ LET out == authenticate_user(username, password, outcome, DbNow)
               IN  Handled([op |-> "authenticate_user", username |-> username,
                            password |-> password, outcome |-> outcome,
                            before |-> tables["user"]],
                           [db |-> out.db,
                            response |-> [kind |-> "value", ret |-> out.ret]])
            /\ UNCHANGED <<questions, result, cos, session>>

NextAuth == RouteCreateUser \/ ServiceCreateUser \/ AuthenticateUser

SpecAuth == InitAuth /\ [][NextAuth]_vars

\* the rows of user with the name asked for
UsersNamed == Filtered(tables["user"], [username |-> request.username])

\* the password a row was created with is pw: APIService.create_user stores the
\* password as it is, POST /users stores its digest
CreatedWith(row, pw) ==
    IF "password" \in DOMAIN row THEN row.password = pw
    ELSE row.password_hash = sha256_hexdigest(pw)

\* C29: a user created with password p, through POST /users or through
\* APIService.create_user, is authenticated by authenticate_user(username, p), and
\* authenticate_user returns None for every other password and for an unknown
\* username (the user's name being that of one row, and the lookup answering).
C29_CreatedUserAuthenticates ==
    (/\ request.op = "authenticate_user"
     /\ request.outcome = "ok"
     /\ Len(UsersNamed) <= 1)
        => (~response.ret.none
               <=> (UsersNamed # <<>> /\ CreatedWith(UsersNamed[1], request.password)))

(***************************************************************************)
(* SpecUpdate: updates of exam papers through PUT /exam_papers/{id} and     *)
(* through APIService.update_exam_paper, on rows that have a title and a    *)
(* description.                                                            *)
(***************************************************************************)
StoredExamPapers ==
    <<[id |-> 1, student_id |-> 1, title |-> "t", description |-> "d"],
      [id |-> 2, student_id |-> 1, title |-> "t", description |-> "d"]>>

\* the new value a payload gives to a field
NewValue(field) == IF field = "student_id" THEN 2 ELSE "new"

\* the payloads: any of the fields of an exam paper, each with its new value
ExamPaperPayloads ==
    {[f \in fields |-> NewValue(f)] : fields \in SUBSET {"student_id", "title", "description"}}

InitUpdate ==
    /\ AnalyticsIdle
    /\ cos = NoCos
    /\ session = NoSession
    /\ tables = [NoTables EXCEPT !["exam_paper"] = StoredExamPapers]
    /\ nextId = 3
    /\ request = [op |-> "none"]
    /\ dbLog = <<>>
    /\ response = [kind |-> "none"]

\* PUT /exam_papers/{paper_id}
RouteUpdateExamPaper ==
    \E id \in CrudIds, body \in ExamPaperPayloads :
        \E outcome \in Outcomes :
            /\ ValidCreate("exam_papers", body)
            /\ Handled([op |-> "route_update_exam_paper", id |-> id, body |-> body,
                        outcome |-> outcome, before |-> tables["exam_paper"]],
                       route_update("exam_papers", id, body, outcome, DbNow))
            /\ UNCHANGED <<questions, result, cos, session>>

\* APIService.update_exam_paper(paper_id, paper_data)
ServiceUpdateExamPaper ==
    \E id \in CrudIds, body \in ExamPaperPayloads :
        \E outcome \in Outcomes :
            /\ LET out == service_update("exam_papers", id, DataDict(body), outcome, DbNow)
               IN  Handled([op |-> "service_update_exam_paper", id |-> id,
                            body |-> body, outcome |-> outcome,
                            before |-> tables["exam_paper"]],
                           [db |-> out.db,
                            response |-> [kind |-> "value", ret |-> out.ret]])
            /\ UNCHANGED <<questions, result, cos, session>>

NextUpdate == RouteUpdateExamPaper \/ ServiceUpdateExamPaper

SpecUpdate == InitUpdate /\ [][NextUpdate]_vars

\* C30: an update changes only the fields the caller supplied: after
\* APIService.update_exam_paper or PUT /exam_papers/{id}, the row with that id has
\* the supplied values and, in every field the payload omits, the value it had; the
\* rows with other ids are as they were.
C30_UpdateChangesOnlySupplied ==
    request.op \in {"route_update_exam_paper", "service_update_exam_paper"} =>
        /\ Len(tables["exam_paper"]) = Len(request.before)
        /\ \A k \in DOMAIN request.before :
               LET old == request.before[k]
                   new == tables["exam_paper"][k]
               IN  IF old.id = request.id
                   THEN \A f \in DOMAIN old \ DOMAIN request.body : new[f] = old[f]
                   ELSE new = old

====
